---- MODULE Spec2Model ----
(***************************************************************************)
(* Model of the Hashnode blog pull action: input validation                *)
(* (ValidationHelper), rendering of the post list (TemplateService),       *)
(* the marker merge (BlogController.updateFileContent) and the run         *)
(* pipeline (BlogController.execute under index.js run()).                 *)
(*                                                                         *)
(* JavaScript strings are TLA+ strings: TLC evaluates Len, SubSeq and \o   *)
(* on them character by character, so substring search, prefixes and       *)
(* concatenation are computed on the text itself.  The model text is       *)
(* ASCII.                                                                  *)
(***************************************************************************)
EXTENDS Integers, Sequences, FiniteSets, TLC

VARIABLES
    config,          \* this.config of the controller (record of JS values)
    posts,           \* posts returned by the fetch of the current run
    content,         \* rendered block (generateContent result / newContent)
    currentContent,  \* text read from the document store / merge input
    updatedContent,  \* merge output
    stored,          \* the document in the store (NotFound when absent)
    pc,              \* position of the run
    outputs,         \* setOutput values of the run
    calls,           \* external calls made by the run, in order
    failed,          \* message given to setFailed, NoError when none
    validation,      \* result of validateInputs
    applied,         \* number of merges applied (merge specification)
    runs,            \* number of runs started
    log,             \* warnings and errors given to the Logger, in order
    isMockMode,      \* GitHubService.isMockMode: no token, local file system
    now,             \* the clock: what moment() returns (ISO 8601 text, UTC)
    response,        \* post nodes of the API response given to transformPost
    previous,        \* what the run before the current one read, used and wrote
    sha              \* the file updateFile looked up for its sha (NotFound: no sha)

vars == <<config, posts, content, currentContent, updatedContent, stored, pc,
          outputs, calls, failed, validation, applied, runs, log, isMockMode,
          now, response, previous, sha>>

NoError == "<no error>"
\* the document store holds no file, or a file with its text
NotFound == <<>>
File(text) == <<text>>
Unset == "<unset>"
NoOutputs == [posts_count |-> Unset, file_updated |-> Unset, commit_sha |-> Unset]
\* there was no run before the current one
NoPrevious ==
    [config |-> Unset, posts |-> <<>>, currentContent |-> Unset, file_updated |-> Unset]

-----------------------------------------------------------------------------
(* JavaScript strings *)

\* String.prototype.includes
includes(s, sub) ==
    \E i \in 1..(Len(s) - Len(sub) + 1) : SubSeq(s, i, i + Len(sub) - 1) = sub

\* String.prototype.indexOf: 0-based index of the first occurrence, -1 if none
indexOf(s, sub) ==
    IF includes(s, sub)
    THEN (CHOOSE i \in 1..(Len(s) - Len(sub) + 1) :
             /\ SubSeq(s, i, i + Len(sub) - 1) = sub
             /\ \A j \in 1..(i - 1) : SubSeq(s, j, j + Len(sub) - 1) # sub) - 1
    ELSE -1

\* String.prototype.substring(start, end), 0-based, end exclusive
substring(s, start, end) == SubSeq(s, start + 1, end)

\* String.prototype.substring(start)
substringFrom(s, start) == SubSeq(s, start + 1, Len(s))

\* String.prototype.startsWith
startsWith(s, prefix) == Len(prefix) <= Len(s) /\ SubSeq(s, 1, Len(prefix)) = prefix

charAt(s, i) == SubSeq(s, i, i)

\* the characters \s matches and trim() strips, within ASCII
Whitespace == {" ", "\t", "\n", "\r", "\f"}

RECURSIVE trimStart(_)
trimStart(s) ==
    IF Len(s) > 0 /\ charAt(s, 1) \in Whitespace
    THEN trimStart(SubSeq(s, 2, Len(s)))
    ELSE s

RECURSIVE trimEnd(_)
trimEnd(s) ==
    IF Len(s) > 0 /\ charAt(s, Len(s)) \in Whitespace
    THEN trimEnd(SubSeq(s, 1, Len(s) - 1))
    ELSE s

\* String.prototype.trim
trim(s) == trimEnd(trimStart(s))

\* some character of s is in the class cs (an unanchored /[...]/ test)
hasCharIn(s, cs) == \E i \in 1..Len(s) : charAt(s, i) \in cs

RECURSIVE Repeat(_, _)
Repeat(c, n) ==
    IF n = 0 THEN ""
    ELSE LET half == Repeat(c, n \div 2)
         IN half \o half \o (IF n % 2 = 1 THEN c ELSE "")

-----------------------------------------------------------------------------
(* JavaScript values: t is the type tag, n/d the numeric value, s the text *)

Str(s) == [t |-> "string", n |-> 0, d |-> 1, s |-> s]
Num(n) == [t |-> "number", n |-> n, d |-> 1, s |-> ""]
Frac(n, d) == [t |-> "number", n |-> n, d |-> d, s |-> ""]
NaN == [t |-> "NaN", n |-> 0, d |-> 1, s |-> ""]
undefined == [t |-> "undefined", n |-> 0, d |-> 1, s |-> ""]

typeof(v) == IF v.t = "NaN" THEN "number" ELSE v.t

\* isNaN applied to a value whose typeof is "number"
isNaN(v) == v.t = "NaN"

\* ToBoolean
Truthy(v) ==
    CASE v.t = "string" -> v.s # ""
      [] v.t = "number" -> v.n # 0
      [] OTHER -> FALSE

\* Number.isInteger
isInteger(v) == v.t = "number" /\ v.n % v.d = 0

\* v < k and v > k for a number v (false for NaN, as in JavaScript)
lessThan(v, k) == v.t = "number" /\ v.n < k * v.d
greaterThan(v, k) == v.t = "number" /\ v.n > k * v.d

-----------------------------------------------------------------------------
(* ConfigHelper *)

\* ConfigHelper.getSupportedFormats
getSupportedFormats == <<"card", "stacked-left", "stacked-right", "list", "table">>

\* Array.prototype.includes
arrayIncludes(arr, x) == \E i \in 1..Len(arr) : arr[i] = x

\* Array.prototype.join
RECURSIVE join(_, _)
join(arr, sep) ==
    IF Len(arr) = 0 THEN ""
    ELSE IF Len(arr) = 1 THEN arr[1]
    ELSE arr[1] \o sep \o join(Tail(arr), sep)

\* The configuration ConfigHelper.getConfig builds when only publication_name
\* is given (the section title default without its leading emoji).
DefaultConfig ==
    [ publicationName   |-> Str("my-blog"),
      postCount         |-> Num(6),
      displayFormat     |-> Str("stacked-left"),
      filename          |-> Str("README.md"),
      cardWidth         |-> Num(500),
      imageWidth        |-> Num(100),
      imageHeight       |-> Num(100),
      dateFormat        |-> Str("MMM DD, YYYY"),
      descriptionLength |-> Num(200),
      customCss         |-> Str(""),
      sectionTitle      |-> Str("Latest Blog Posts"),
      noPostsMessage    |-> Str("No blog posts found."),
      targetBranch      |-> Str("main") ]

-----------------------------------------------------------------------------
(* ValidationHelper: each validator yields the message of the Error it     *)
(* throws, NoError when it returns normally.                               *)

LowerCase == {"a","b","c","d","e","f","g","h","i","j","k","l","m",
              "n","o","p","q","r","s","t","u","v","w","x","y","z"}
UpperCase == {"A","B","C","D","E","F","G","H","I","J","K","L","M",
              "N","O","P","Q","R","S","T","U","V","W","X","Y","Z"}
Digits == {"0","1","2","3","4","5","6","7","8","9"}

\* /^[a-zA-Z0-9-._]+$/
validFormat(s) ==
    /\ Len(s) >= 1
    /\ \A i \in 1..Len(s) :
          charAt(s, i) \in LowerCase \cup UpperCase \cup Digits \cup {"-", ".", "_"}

validatePublicationName(publicationName) ==
    IF ~Truthy(publicationName) \/ typeof(publicationName) # "string"
    THEN "Publication name is required and must be a string"
    ELSE IF Len(trim(publicationName.s)) = 0
    THEN "Publication name cannot be empty"
    ELSE IF ~validFormat(publicationName.s)
    THEN "Publication name contains invalid characters. Use only letters, numbers, hyphens, dots, and underscores."
    ELSE IF Len(publicationName.s) > 100
    THEN "Publication name is too long (max 100 characters)"
    ELSE NoError

validatePostCount_NoIntegerCheck(postCount) ==
    IF typeof(postCount) # "number" \/ isNaN(postCount)
    THEN "Post count must be a valid number"
    ELSE IF lessThan(postCount, 1)
    THEN "Post count must be at least 1"
    ELSE IF greaterThan(postCount, 12)
    THEN "Post count cannot exceed 12"
    ELSE NoError

validatePostCount(postCount) ==
    IF typeof(postCount) # "number" \/ isNaN(postCount)
    THEN "Post count must be a valid number"
    ELSE IF lessThan(postCount, 1)
    THEN "Post count must be at least 1"
    ELSE IF greaterThan(postCount, 12)
    THEN "Post count cannot exceed 12"
    ELSE IF ~isInteger(postCount)
    THEN "Post count must be an integer"
    ELSE NoError

validateDisplayFormat_PrefixMatch(displayFormat) ==
    IF ~Truthy(displayFormat) \/ typeof(displayFormat) # "string"
    THEN "Display format is required and must be a string"
    ELSE IF ~\E i \in 1..Len(getSupportedFormats) :
                startsWith(displayFormat.s, getSupportedFormats[i])
    THEN "Unsupported display format: " \o displayFormat.s
             \o ". Supported formats: " \o join(getSupportedFormats, ", ")
    ELSE NoError

validateDisplayFormat(displayFormat) ==
    IF ~Truthy(displayFormat) \/ typeof(displayFormat) # "string"
    THEN "Display format is required and must be a string"
    ELSE IF ~arrayIncludes(getSupportedFormats, displayFormat.s)
    THEN "Unsupported display format: " \o displayFormat.s
             \o ". Supported formats: " \o join(getSupportedFormats, ", ")
    ELSE NoError

validateFilename(filename) ==
    IF ~Truthy(filename) \/ typeof(filename) # "string"
    THEN "Filename is required and must be a string"
    ELSE IF Len(trim(filename.s)) = 0
    THEN "Filename cannot be empty"
    ELSE IF hasCharIn(filename.s, {"<", ">", ":", "\"", "|", "?", "*"})
    THEN "Filename contains invalid characters"
    ELSE IF includes(filename.s, "..") \/ startsWith(filename.s, "/")
    THEN "Filename cannot contain path traversal or absolute paths"
    ELSE IF Len(filename.s) > 255
    THEN "Filename is too long (max 255 characters)"
    ELSE NoError

validateNumericOption_NoIntegerCheck(optionName, value, min, max) ==
    IF typeof(value) # "number" \/ isNaN(value)
    THEN optionName \o " must be a valid number"
    ELSE IF lessThan(value, min) \/ greaterThan(value, max)
    THEN optionName \o " must be between " \o ToString(min) \o " and " \o ToString(max)
    ELSE NoError

validateNumericOption(optionName, value, min, max) ==
    IF typeof(value) # "number" \/ isNaN(value)
    THEN optionName \o " must be a valid number"
    ELSE IF ~isInteger(value)
    THEN optionName \o " must be an integer"
    ELSE IF lessThan(value, min) \/ greaterThan(value, max)
    THEN optionName \o " must be between " \o ToString(min) \o " and " \o ToString(max)
    ELSE NoError

\* the invalidPatterns of validateBranchName, tested in order
invalidPatterns(s) ==
    \/ startsWith(s, ".")
    \/ (Len(s) > 0 /\ charAt(s, Len(s)) = ".")
    \/ includes(s, "..")
    \/ hasCharIn(s, Whitespace)
    \/ hasCharIn(s, {"~", "^", ":", "?", "*", "[", "]", "\\"})

validateBranchName(branchName) ==
    IF ~Truthy(branchName) \/ typeof(branchName) # "string"
    THEN "Branch name must be a string"
    ELSE IF Len(trim(branchName.s)) = 0
    THEN "Branch name cannot be empty"
    ELSE IF invalidPatterns(branchName.s)
    THEN "Invalid branch name: " \o branchName.s
    ELSE IF Len(branchName.s) > 250
    THEN "Branch name is too long (max 250 characters)"
    ELSE NoError

\* one statement of validateCustomizationOptions
customizationCheck(rule, cfg) ==
    CASE rule = "cardWidth" ->
             validateNumericOption("cardWidth", cfg.cardWidth, 100, 1200)
      [] rule = "imageWidth" ->
             validateNumericOption("imageWidth", cfg.imageWidth, 50, 500)
      [] rule = "imageHeight" ->
             validateNumericOption("imageHeight", cfg.imageHeight, 50, 500)
      [] rule = "descriptionLength" ->
             validateNumericOption("descriptionLength", cfg.descriptionLength, 50, 1000)
      [] rule = "dateFormat" ->
             IF Truthy(cfg.dateFormat) /\ typeof(cfg.dateFormat) # "string"
             THEN "Date format must be a string" ELSE NoError
      [] rule = "customCss" ->
             IF Truthy(cfg.customCss) /\ typeof(cfg.customCss) # "string"
             THEN "Custom CSS must be a string" ELSE NoError
      [] rule = "sectionTitle" ->
             IF Truthy(cfg.sectionTitle) /\ typeof(cfg.sectionTitle) # "string"
             THEN "Section title must be a string" ELSE NoError
      [] rule = "noPostsMessage" ->
             IF Truthy(cfg.noPostsMessage) /\ typeof(cfg.noPostsMessage) # "string"
             THEN "No posts message must be a string" ELSE NoError
      [] rule = "targetBranch" ->
             IF Truthy(cfg.targetBranch)
             THEN validateBranchName(cfg.targetBranch) ELSE NoError

\* one statement of validateInputs before validateCustomizationOptions
inputCheck(rule, cfg) ==
    CASE rule = "publicationName" -> validatePublicationName(cfg.publicationName)
      [] rule = "postCount" -> validatePostCount(cfg.postCount)
      [] rule = "displayFormat" -> validateDisplayFormat(cfg.displayFormat)
      [] rule = "filename" -> validateFilename(cfg.filename)
      [] OTHER -> customizationCheck(rule, cfg)

\* Statements run one after the other; the first throw ends the sequence.
\* error: the message thrown; rule: the statement that threw; evaluated: the
\* statements that ran.
RECURSIVE runChecks(_, _, _)
runChecks(order, cfg, i) ==
    IF i > Len(order)
    THEN [error |-> NoError, rule |-> "", evaluated |-> order]
    ELSE IF inputCheck(order[i], cfg) # NoError
    THEN [error |-> inputCheck(order[i], cfg), rule |-> order[i],
          evaluated |-> SubSeq(order, 1, i)]
    ELSE runChecks(order, cfg, i + 1)

validateCustomizationOptions(cfg) ==
    runChecks(<<"cardWidth", "imageWidth", "imageHeight", "descriptionLength",
                "dateFormat", "customCss", "sectionTitle", "noPostsMessage",
                "targetBranch">>, cfg, 1)

validateInputs_FormatBeforeCount(cfg) ==
    LET first == runChecks(<<"publicationName", "displayFormat", "postCount",
                             "filename">>, cfg, 1)
        rest == validateCustomizationOptions(cfg)
    IN IF first.error # NoError THEN first
       ELSE [rest EXCEPT !.evaluated = first.evaluated \o rest.evaluated]

validateInputs(cfg) ==
    LET first == runChecks(<<"publicationName", "postCount", "displayFormat",
                             "filename">>, cfg, 1)
        rest == validateCustomizationOptions(cfg)
    IN IF first.error # NoError THEN first
       ELSE [rest EXCEPT !.evaluated = first.evaluated \o rest.evaluated]

-----------------------------------------------------------------------------
(* Validation of a configuration, and of single options, on its own *)

\* Values given to one option while the others keep their defaults.
Overrides ==
    {<<"publicationName", v>> : v \in
        {Str(""), undefined, Str("   "), Str("my blog"), Num(5),
         Str(Repeat("a", 100)), Str(Repeat("a", 101)), Str("blog.example.com")}}
    \cup
    {<<"postCount", v>> : v \in
        {Num(-1), Num(0), Frac(1, 2), Num(1), Frac(3, 2), Num(12), Frac(25, 2),
         Num(13), NaN, Str("6"), undefined}}
    \cup
    {<<"displayFormat", v>> : v \in
        {Str("card"), Str("stacked-right"), Str("list"), Str("table"), Str(""),
         Str("grid"), Str("Card"), Str("cards"), Str("tabl"), undefined, Num(1)}}
    \cup
    {<<"filename", v>> : v \in
        {Str(""), Str(" "), Str("a<b.md"), Str("../x.md"), Str("/etc/x"),
         Str(Repeat("a", 255)), Str(Repeat("a", 256)), Str("docs/BLOG.md"), Num(1)}}
    \cup
    {<<"cardWidth", v>> : v \in
        {Num(99), Num(100), Num(1200), Num(1201), Frac(201, 2), Frac(199, 2),
         NaN, Str("500"), undefined}}
    \cup
    {<<"imageWidth", v>> : v \in
        {Num(49), Num(50), Num(500), Num(501), Frac(101, 2), NaN}}
    \cup
    {<<"imageHeight", v>> : v \in
        {Num(49), Num(50), Num(500), Num(501), Frac(999, 2), Str("100")}}
    \cup
    {<<"descriptionLength", v>> : v \in
        {Num(49), Num(50), Num(1000), Num(1001), Frac(2001, 2), NaN}}
    \cup
    {<<"dateFormat", v>> : v \in {Str(""), Num(5), Str("relative"), undefined}}
    \cup
    {<<"customCss", v>> : v \in {Num(1), Str("color: red;")}}
    \cup
    {<<"sectionTitle", v>> : v \in {Str(""), Num(1), Str("Posts"), undefined}}
    \cup
    {<<"noPostsMessage", v>> : v \in {Str(""), Num(1), Str("Nothing yet"), undefined}}
    \cup
    {<<"targetBranch", v>> : v \in
        {Str(""), Str("  "), Str(".x"), Str("x."), Str("a..b"), Str("a b"),
         Str("a~b"), Str(Repeat("b", 250)), Str(Repeat("b", 251)), Num(3),
         Str("dev"), undefined}}

Override(cfg, o) == [f \in DOMAIN cfg |-> IF f = o[1] THEN o[2] ELSE cfg[f]]

\* The default configuration with one or two options overridden.
ValidationConfigs ==
    {Override(Override(DefaultConfig, a), b) : a \in Overrides, b \in Overrides}

NoValidation == [error |-> Unset, rule |-> "", evaluated |-> <<>>]

InitValidate ==
    /\ config \in ValidationConfigs
    /\ pc = "validate"
    /\ validation = NoValidation
    /\ posts = <<>>
    /\ content = ""
    /\ currentContent = ""
    /\ updatedContent = ""
    /\ stored = NotFound
    /\ outputs = NoOutputs
    /\ calls = <<>>
    /\ failed = NoError
    /\ applied = 0
    /\ runs = 0
    /\ log = <<>>
    /\ isMockMode = FALSE
    /\ now = Unset
    /\ response = <<>>
    /\ previous = NoPrevious
    /\ sha = NotFound

ApplyValidateInputs ==
    /\ pc = "validate"
    /\ validation' = validateInputs(config)
    /\ pc' = "validateInputs"
    /\ UNCHANGED <<log, isMockMode, config, posts, content, currentContent, updatedContent,
                   stored, outputs, calls, failed, applied, runs>>
    /\ UNCHANGED <<now, response, previous, sha>>

ApplyValidatePostCount ==
    /\ pc = "validate"
    /\ validation' = [error |-> validatePostCount(config.postCount),
                      rule |-> "postCount", evaluated |-> <<"postCount">>]
    /\ pc' = "validatePostCount"
    /\ UNCHANGED <<log, isMockMode, config, posts, content, currentContent, updatedContent,
                   stored, outputs, calls, failed, applied, runs>>
    /\ UNCHANGED <<now, response, previous, sha>>

ApplyValidateDisplayFormat ==
    /\ pc = "validate"
    /\ validation' = [error |-> validateDisplayFormat(config.displayFormat),
                      rule |-> "displayFormat", evaluated |-> <<"displayFormat">>]
    /\ pc' = "validateDisplayFormat"
    /\ UNCHANGED <<log, isMockMode, config, posts, content, currentContent, updatedContent,
                   stored, outputs, calls, failed, applied, runs>>
    /\ UNCHANGED <<now, response, previous, sha>>

NextValidate ==
    \/ ApplyValidateInputs
    \/ ApplyValidatePostCount
    \/ ApplyValidateDisplayFormat

SpecValidate == InitValidate /\ [][NextValidate]_vars

-----------------------------------------------------------------------------
(* BlogController.updateFileContent *)

sectionStart == "<!-- BLOG-POSTS:START -->"
sectionEnd == "<!-- BLOG-POSTS:END -->"

\* the template literal fullSection
fullSection(newContent, sectionTitle) ==
    sectionStart \o "\n"
        \o (IF Truthy(sectionTitle) THEN "## " \o sectionTitle.s \o "\n\n" ELSE "")
        \o newContent \o "\n" \o sectionEnd

updateFileContent_KeepsEndMarker(existing, newContent, sectionTitle) ==
    IF includes(existing, sectionStart) /\ includes(existing, sectionEnd)
    THEN substring(existing, 0, indexOf(existing, sectionStart))
             \o fullSection(newContent, sectionTitle)
             \o substringFrom(existing, indexOf(existing, sectionEnd))
    ELSE existing \o "\n\n" \o fullSection(newContent, sectionTitle) \o "\n"

updateFileContent_ReplaceAddsNewline(existing, newContent, sectionTitle) ==
    IF includes(existing, sectionStart) /\ includes(existing, sectionEnd)
    THEN substring(existing, 0, indexOf(existing, sectionStart))
             \o fullSection(newContent, sectionTitle) \o "\n"
             \o substringFrom(existing, indexOf(existing, sectionEnd) + Len(sectionEnd))
    ELSE existing \o "\n\n" \o fullSection(newContent, sectionTitle) \o "\n"

updateFileContent_AppendsOneNewline(existing, newContent, sectionTitle) ==
    IF includes(existing, sectionStart) /\ includes(existing, sectionEnd)
    THEN substring(existing, 0, indexOf(existing, sectionStart))
             \o fullSection(newContent, sectionTitle)
             \o substringFrom(existing, indexOf(existing, sectionEnd) + Len(sectionEnd))
    ELSE existing \o "\n" \o fullSection(newContent, sectionTitle) \o "\n"

updateFileContent_AppendsAlways(existing, newContent, sectionTitle) ==
    existing \o "\n\n" \o fullSection(newContent, sectionTitle) \o "\n"

\* sectionTitle is this.config.sectionTitle
updateFileContent(existing, newContent, sectionTitle) ==
    IF includes(existing, sectionStart) /\ includes(existing, sectionEnd)
    THEN substring(existing, 0, indexOf(existing, sectionStart))
             \o fullSection(newContent, sectionTitle)
             \o substringFrom(existing, indexOf(existing, sectionEnd) + Len(sectionEnd))
    ELSE existing \o "\n\n" \o fullSection(newContent, sectionTitle) \o "\n"

-----------------------------------------------------------------------------
(* The merge applied to a document, and again to its own output *)

MaxPieces == 5
MaxApplications == 2

\* Fragments a document is made of: prose that ends with the text both
\* markers begin with, and the two markers.
Pieces == <<"# Readme\n<!-- BLOG-POSTS:", sectionStart, sectionEnd>>

RECURSIVE DocsOf(_)
DocsOf(n) ==
    IF n = 0 THEN {""}
    ELSE DocsOf(n - 1) \cup
         {d \o Pieces[i] : d \in DocsOf(n - 1), i \in 1..Len(Pieces)}

MergeDocs == DocsOf(MaxPieces)

\* Rendered blocks: a list rendering, the empty block, and list renderings
\* of posts whose title is marker text.
MergeBlocks ==
    { "- **Jan 15, 2024**: [A](https://example.com/a)",
      "",
      "- **Jan 15, 2024**: [" \o sectionEnd \o "](https://example.com/a)",
      "- **Jan 15, 2024**: [" \o sectionStart \o "](https://example.com/a)" }

MergeTitles == {Str(""), Str("Latest Blog Posts"), Str("Posts " \o sectionEnd)}

InitMerge ==
    /\ currentContent \in MergeDocs
    /\ stored = File(currentContent)
    /\ content \in MergeBlocks
    /\ \E title \in MergeTitles : config = [DefaultConfig EXCEPT !.sectionTitle = title]
    /\ updatedContent = Unset
    /\ pc = "merge"
    /\ applied = 0
    /\ validation = NoValidation
    /\ posts = <<>>
    /\ outputs = NoOutputs
    /\ calls = <<>>
    /\ failed = NoError
    /\ runs = 0
    /\ log = <<>>
    /\ isMockMode = FALSE
    /\ now = Unset
    /\ response = <<>>
    /\ previous = NoPrevious
    /\ sha = NotFound

\* updateFileContent on the document, then on what the previous call returned
ApplyMerge ==
    /\ pc = "merge"
    /\ applied < MaxApplications
    /\ currentContent' = IF applied = 0 THEN currentContent ELSE updatedContent
    /\ updatedContent' = updateFileContent(currentContent', content, config.sectionTitle)
    /\ applied' = applied + 1
    /\ UNCHANGED <<log, isMockMode, config, posts, content, stored, pc, outputs, calls, failed,
                   validation, runs>>
    /\ UNCHANGED <<now, response, previous, sha>>

NextMerge == ApplyMerge

SpecMerge == InitMerge /\ [][NextMerge]_vars

-----------------------------------------------------------------------------
(* TemplateService *)

\* String(v) of a template literal interpolation
toText(v) ==
    CASE v.t = "string" -> v.s
      [] v.t = "number" /\ v.d = 1 -> ToString(v.n)
      [] OTHER -> v.t

processPost_CutsAtLimit(post, cfg) ==
    [post EXCEPT
        !.description =
            IF post.description # "" /\ cfg.descriptionLength.t = "number"
               /\ Len(post.description) * cfg.descriptionLength.d >= cfg.descriptionLength.n
            THEN substring(post.description, 0,
                           cfg.descriptionLength.n \div cfg.descriptionLength.d)
                     \o "..."
            ELSE post.description,
        !.coverImage =
            IF post.coverImage = ""
            THEN "https://via.placeholder.com/400x200/4F46E5/FFFFFF?text=Blog+Post"
            ELSE post.coverImage]

\* processPost: description truncated, cover image defaulted
processPost(post, cfg) ==
    [post EXCEPT
        !.description =
            IF post.description # "" /\ cfg.descriptionLength.t = "number"
               /\ Len(post.description) * cfg.descriptionLength.d > cfg.descriptionLength.n
            THEN substring(post.description, 0,
                           IF cfg.descriptionLength.n < 0 THEN 0
                           ELSE cfg.descriptionLength.n \div cfg.descriptionLength.d)
                     \o "..."
            ELSE post.description,
        !.coverImage =
            IF post.coverImage = ""
            THEN "https://via.placeholder.com/400x200/4F46E5/FFFFFF?text=Blog+Post"
            ELSE post.coverImage]

\* one element of the cards array of generateCards
card(post, cfg) ==
    "<div style=\"border: 1px solid #e1e5e9; border-radius: 8px; padding: 16px; margin: 16px 0; max-width: "
        \o toText(cfg.cardWidth)
        \o "px; "
        \o toText(cfg.customCss)
        \o "\">\n"
        \o "  <img src=\""
        \o post.coverImage
        \o "\" alt=\""
        \o post.title
        \o "\" style=\"width: 100%; height: 200px; object-fit: cover; border-radius: 6px; margin-bottom: 12px;\" />\n"
        \o "  <h3 style=\"margin: 0 0 8px 0; font-size: 18px;\">\n"
        \o "    <a href=\""
        \o post.url
        \o "\" style=\"text-decoration: none; color: #1a1a1a;\">"
        \o post.title
        \o "</a>\n"
        \o "  </h3>\n"
        \o "  <p style=\"margin: 0 0 8px 0; color: #6b7280; font-size: 14px;\">"
        \o post.formattedDate
        \o "</p>\n"
        \o "  <p style=\"margin: 0; color: #4b5563; font-size: 14px; line-height: 1.5;\">"
        \o post.description
        \o "</p>\n"
        \o "</div>"

generateCards(posts_, cfg) ==
    join([i \in 1..Len(posts_) |-> card(posts_[i], cfg)], "\n\n")

imageElement(post, cfg) ==
    "<img src=\""
        \o post.coverImage
        \o "\" alt=\""
        \o post.title
        \o "\" style=\"width: "
        \o toText(cfg.imageWidth)
        \o "px; height: "
        \o toText(cfg.imageHeight)
        \o "px; object-fit: cover; border-radius: 6px;\" />"

contentElement(post) ==
    "<div style=\"flex: 1;\">\n"
        \o "  <h3 style=\"margin: 0 0 4px 0; font-size: 16px;\">\n"
        \o "    <a href=\""
        \o post.url
        \o "\" style=\"text-decoration: none; color: #1a1a1a;\">"
        \o post.title
        \o "</a>\n"
        \o "  </h3>\n"
        \o "  <p style=\"margin: 0 0 4px 0; color: #6b7280; font-size: 12px;\">"
        \o post.formattedDate
        \o "</p>\n"
        \o "  <p style=\"margin: 0; color: #4b5563; font-size: 13px; line-height: 1.4;\">"
        \o post.description
        \o "</p>\n"
        \o "</div>"

flexDirection(imagePosition) == IF imagePosition = "left" THEN "row" ELSE "row-reverse"

gap(imagePosition) == IF imagePosition = "left" THEN "0 12px 0 0" ELSE "0 0 0 12px"

\* one element of the cards array of generateStackedCards
stackedCard(post, cfg, imagePosition) ==
    "<div style=\"display: flex; flex-direction: "
        \o flexDirection(imagePosition)
        \o "; align-items: flex-start; padding: 12px; border: 1px solid #e1e5e9; border-radius: 8px; margin: 8px 0; "
        \o toText(cfg.customCss)
        \o "\">\n"
        \o "  <div style=\"margin: "
        \o gap(imagePosition)
        \o ";\">\n"
        \o "    "
        \o imageElement(post, cfg)
        \o "\n"
        \o "  </div>\n"
        \o "  "
        \o contentElement(post)
        \o "\n"
        \o "</div>"

generateStackedCards(posts_, cfg, imagePosition) ==
    join([i \in 1..Len(posts_) |-> stackedCard(posts_[i], cfg, imagePosition)], "\n\n")

listItem(post) ==
    "- **"
        \o post.formattedDate
        \o "**: ["
        \o post.title
        \o "]("
        \o post.url
        \o ")"

generateList_BlankLineJoined(posts_, cfg) ==
    join([i \in 1..Len(posts_) |-> listItem(posts_[i])], "\n\n")

generateList(posts_, cfg) ==
    join([i \in 1..Len(posts_) |-> listItem(posts_[i])], "\n")

tableStyle(cfg) ==
    "border-collapse: collapse; width: 100%; margin: 16px 0; "
        \o toText(cfg.customCss)

thStyle ==
    "border: 1px solid #e1e5e9; padding: 12px; text-align: left; background-color: #f8f9fa; font-weight: 600;"

tdStyle == "border: 1px solid #e1e5e9; padding: 12px; vertical-align: top;"

headerRow ==
    "<tr>\n"
        \o "        <th style=\""
        \o thStyle
        \o "\">Date</th>\n"
        \o "        <th style=\""
        \o thStyle
        \o "\">Image</th>\n"
        \o "        <th style=\""
        \o thStyle
        \o "\">Title & Description</th>\n"
        \o "      </tr>"

imageCell(post, cfg) ==
    "<img src=\""
        \o post.coverImage
        \o "\" alt=\""
        \o post.title
        \o "\" style=\"width: "
        \o toText(cfg.imageWidth)
        \o "px; height: "
        \o toText(cfg.imageHeight)
        \o "px; object-fit: cover; border-radius: 4px;\" />"

titleCell(post) ==
    "<a href=\""
        \o post.url
        \o "\" style=\"text-decoration: none; color: #1a1a1a; font-weight: 600;\">"
        \o post.title
        \o "</a><br/><span style=\"color: #6b7280; font-size: 14px;\">"
        \o post.description
        \o "</span>"

row(post, cfg) ==
    "<tr>\n"
        \o "          <td style=\""
        \o tdStyle
        \o "\">"
        \o post.formattedDate
        \o "</td>\n"
        \o "          <td style=\""
        \o tdStyle
        \o "\">"
        \o imageCell(post, cfg)
        \o "</td>\n"
        \o "          <td style=\""
        \o tdStyle
        \o "\">"
        \o titleCell(post)
        \o "</td>\n"
        \o "        </tr>"

rows(posts_, cfg) == [i \in 1..Len(posts_) |-> row(posts_[i], cfg)]

\* the rows array is interpolated as a whole: Array.prototype.toString
generateTable(posts_, cfg) ==
    "<table style=\""
        \o tableStyle(cfg)
        \o "\">\n"
        \o "  <thead>\n"
        \o "    "
        \o headerRow
        \o "\n"
        \o "  </thead>\n"
        \o "  <tbody>\n"
        \o "    "
        \o join(rows(posts_, cfg), ",")
        \o "\n"
        \o "  </tbody>\n"
        \o "</table>"

noPostsContent_Verbatim(cfg) == toText(cfg.noPostsMessage)

\* config.noPostsMessage || 'No blog posts found.'
noPostsContent(cfg) ==
    IF Truthy(cfg.noPostsMessage) THEN toText(cfg.noPostsMessage)
    ELSE "No blog posts found."

generateContent_UnknownAsCard(posts_, cfg) ==
    IF Len(posts_) = 0
    THEN noPostsContent(cfg)
    ELSE LET processedPosts == [i \in 1..Len(posts_) |-> processPost(posts_[i], cfg)]
             displayFormat == toText(cfg.displayFormat)
         IN CASE displayFormat = "stacked-left" ->
                     generateStackedCards(processedPosts, cfg, "left")
              [] displayFormat = "stacked-right" ->
                     generateStackedCards(processedPosts, cfg, "right")
              [] displayFormat = "list" -> generateList(processedPosts, cfg)
              [] displayFormat = "table" -> generateTable(processedPosts, cfg)
              [] OTHER -> generateCards(processedPosts, cfg)

\* posts_ is the posts array; a null array is rendered as the empty one is
generateContent(posts_, cfg) ==
    IF Len(posts_) = 0
    THEN noPostsContent(cfg)
    ELSE LET processedPosts == [i \in 1..Len(posts_) |-> processPost(posts_[i], cfg)]
             displayFormat == toText(cfg.displayFormat)
         IN CASE displayFormat = "card" -> generateCards(processedPosts, cfg)
              [] displayFormat = "stacked-left" ->
                     generateStackedCards(processedPosts, cfg, "left")
              [] displayFormat = "stacked-right" ->
                     generateStackedCards(processedPosts, cfg, "right")
              [] displayFormat = "list" -> generateList(processedPosts, cfg)
              [] displayFormat = "table" -> generateTable(processedPosts, cfg)
              [] OTHER -> generateStackedCards(processedPosts, cfg, "left")

\* what generateContent gives to logger.warn: the unknown-format warning
generateContentWarnings(posts_, cfg) ==
    IF Len(posts_) = 0
       \/ toText(cfg.displayFormat) \in
              {"card", "stacked-left", "stacked-right", "list", "table"}
    THEN <<>>
    ELSE << <<"warn",
              "Unknown display format: " \o toText(cfg.displayFormat)
                  \o ", using stacked-left",
              "">> >>

-----------------------------------------------------------------------------
(* TemplateHelper.escapeHtml *)

htmlEscapes(c) ==
    CASE c = "&" -> "&amp;"
      [] c = "<" -> "&lt;"
      [] c = ">" -> "&gt;"
      [] c = "\"" -> "&quot;"
      [] c = "'" -> "&#39;"
      [] OTHER -> c

RECURSIVE escapeHtml(_)
escapeHtml(text) ==
    IF text = "" THEN ""
    ELSE htmlEscapes(SubSeq(text, 1, 1)) \o escapeHtml(SubSeq(text, 2, Len(text)))

-----------------------------------------------------------------------------
(* Posts as HashnodeService.transformPost returns them *)

PostA ==
    [ id |-> "1", title |-> "A", description |-> "First post",
      slug |-> "a", url |-> "https://example.com/a",
      publishedAt |-> "2024-01-15T10:00:00.000Z", formattedDate |-> "Jan 15, 2024",
      coverImage |-> "https://example.com/a.png",
      author |-> [name |-> "Ann", username |-> "ann"],
      tags |-> <<[name |-> "News", slug |-> "news"]>>, readTime |-> 3 ]

PostB ==
    [ id |-> "2", title |-> "B",
      description |-> "A description that is longer than fifty characters, so it is cut.",
      slug |-> "b", url |-> "https://example.com/b",
      publishedAt |-> "2024-02-01T10:00:00.000Z", formattedDate |-> "Feb 01, 2024",
      coverImage |-> "",
      author |-> [name |-> "Unknown Author", username |-> ""],
      tags |-> <<>>, readTime |-> 0 ]

PostC ==
    [ id |-> "3", title |-> "<script>alert('x')</script> & \"more\"",
      description |-> "",
      slug |-> "c", url |-> "https://example.com/c",
      publishedAt |-> "2024-03-01T10:00:00.000Z", formattedDate |-> "Mar 01, 2024",
      coverImage |-> "https://example.com/c.png",
      author |-> [name |-> "Cy", username |-> "cy"],
      tags |-> <<>>, readTime |-> 1 ]

MaxPosts == 2

RECURSIVE PostLists(_)
PostLists(n) ==
    IF n = 0 THEN {<<>>}
    ELSE PostLists(n - 1) \cup
         {Append(ps, p) : ps \in PostLists(n - 1), p \in {PostA, PostB, PostC}}

-----------------------------------------------------------------------------
(* generateContent applied to a post list and a configuration *)

RenderConfigs ==
    {[DefaultConfig EXCEPT !.displayFormat = f, !.noPostsMessage = m,
                           !.descriptionLength = l] :
        f \in {Str("card"), Str("stacked-left"), Str("stacked-right"), Str("list"),
               Str("table"), Str("grid"), Str("Card"), undefined},
        m \in {Str("No blog posts found."), Str(""), Str("Nothing yet"), undefined},
        l \in {Num(50), Num(Len(PostB.description)), Num(200)}}

InitRender ==
    /\ posts \in PostLists(MaxPosts)
    /\ config \in RenderConfigs
    /\ content = Unset
    /\ pc = "render"
    /\ currentContent = ""
    /\ updatedContent = ""
    /\ stored = NotFound
    /\ outputs = NoOutputs
    /\ calls = <<>>
    /\ failed = NoError
    /\ validation = NoValidation
    /\ applied = 0
    /\ runs = 0
    /\ log = <<>>
    /\ isMockMode = FALSE
    /\ now = Unset
    /\ response = <<>>
    /\ previous = NoPrevious
    /\ sha = NotFound

ApplyGenerateContent ==
    /\ pc = "render"
    /\ content' = generateContent(posts, config)
    /\ log' = log \o generateContentWarnings(posts, config)
    /\ pc' = "rendered"
    /\ UNCHANGED <<isMockMode, config, posts, currentContent, updatedContent, stored, outputs,
                   calls, failed, validation, applied, runs>>
    /\ UNCHANGED <<now, response, previous, sha>>

NextRender == ApplyGenerateContent

SpecRender == InitRender /\ [][NextRender]_vars

-----------------------------------------------------------------------------
(* DateHelper: moment(date).format(token) and the relative format.  Dates  *)
(* are ISO 8601 texts in UTC, which is also taken as the local time zone;  *)
(* of moment's tokens YYYY, MMMM, MMM, MM and DD are modelled, every other *)
(* character of a format is copied.                                        *)

Digit(c) ==
    CASE c = "0" -> 0 [] c = "1" -> 1 [] c = "2" -> 2 [] c = "3" -> 3 [] c = "4" -> 4
      [] c = "5" -> 5 [] c = "6" -> 6 [] c = "7" -> 7 [] c = "8" -> 8 [] c = "9" -> 9

RECURSIVE ToNat(_)
ToNat(s) ==
    IF s = "" THEN 0
    ELSE 10 * ToNat(SubSeq(s, 1, Len(s) - 1)) + Digit(SubSeq(s, Len(s), Len(s)))

\* moment(date).isValid() for the texts of the model: YYYY-MM-DDTHH:MM:SS.mmmZ
isValid(date) ==
    /\ Len(date) = 24
    /\ \A i \in {1, 2, 3, 4, 6, 7, 9, 10, 12, 13, 15, 16, 18, 19, 21, 22, 23} :
          charAt(date, i) \in Digits
    /\ charAt(date, 5) = "-" /\ charAt(date, 8) = "-" /\ charAt(date, 11) = "T"
    /\ charAt(date, 24) = "Z"

\* moment(date): the fields of the date
moment(date) ==
    [ year   |-> ToNat(substring(date, 0, 4)),
      month  |-> ToNat(substring(date, 5, 7)),
      day    |-> ToNat(substring(date, 8, 10)),
      hour   |-> ToNat(substring(date, 11, 13)),
      minute |-> ToNat(substring(date, 14, 16)),
      second |-> ToNat(substring(date, 17, 19)),
      text   |-> date ]

MonthNames ==
    <<"January", "February", "March", "April", "May", "June", "July", "August",
      "September", "October", "November", "December">>

\* momentDate.format(format)
RECURSIVE momentFormat(_, _)
momentFormat(m, format) ==
    IF format = "" THEN ""
    ELSE IF startsWith(format, "YYYY")
         THEN substring(m.text, 0, 4) \o momentFormat(m, substringFrom(format, 4))
    ELSE IF startsWith(format, "MMMM")
         THEN MonthNames[m.month] \o momentFormat(m, substringFrom(format, 4))
    ELSE IF startsWith(format, "MMM")
         THEN substring(MonthNames[m.month], 0, 3)
                  \o momentFormat(m, substringFrom(format, 3))
    ELSE IF startsWith(format, "MM")
         THEN substring(m.text, 5, 7) \o momentFormat(m, substringFrom(format, 2))
    ELSE IF startsWith(format, "DD")
         THEN substring(m.text, 8, 10) \o momentFormat(m, substringFrom(format, 2))
    ELSE substring(format, 0, 1) \o momentFormat(m, substringFrom(format, 1))

isLeapYear(y) == (y % 4 = 0 /\ y % 100 # 0) \/ y % 400 = 0

daysInMonth(y, m) ==
    IF m = 2 THEN (IF isLeapYear(y) THEN 29 ELSE 28)
    ELSE IF m \in {4, 6, 9, 11} THEN 30 ELSE 31

BaseYear == 2020

RECURSIVE daysBeforeYear(_)
daysBeforeYear(y) ==
    IF y <= BaseYear THEN 0
    ELSE daysBeforeYear(y - 1) + (IF isLeapYear(y - 1) THEN 366 ELSE 365)

RECURSIVE daysBeforeMonth(_, _)
daysBeforeMonth(y, m) ==
    IF m <= 1 THEN 0 ELSE daysBeforeMonth(y, m - 1) + daysInMonth(y, m - 1)

\* seconds from the start of BaseYear to m
valueOf(m) ==
    (daysBeforeYear(m.year) + daysBeforeMonth(m.year, m.month) + (m.day - 1)) * 86400
        + m.hour * 3600 + m.minute * 60 + m.second

\* a.diff(b, unit) for a at or after b and a unit of fixed length (seconds)
diff(a, b, unitSeconds) == (valueOf(a) - valueOf(b)) \div unitSeconds

\* a.diff(b, 'months') for a at or after b: the whole calendar months from
\* b to a (days of the month up to 28, where no end of month is clamped)
diffMonths(a, b) ==
    LET whole == (a.year - b.year) * 12 + (a.month - b.month)
        within(m) == (m.day - 1) * 86400 + m.hour * 3600 + m.minute * 60 + m.second
    IN IF within(a) < within(b) THEN whole - 1 ELSE whole

diffYears(a, b) == diffMonths(a, b) \div 12

\* DateHelper.getRelativeTime; now is what moment() returns
getRelativeTime(momentDate) ==
    LET diffInDays == diff(moment(now), momentDate, 86400)
        diffInHours == diff(moment(now), momentDate, 3600)
        diffInMinutes == diff(moment(now), momentDate, 60)
        diffInWeeks == diff(moment(now), momentDate, 7 * 86400)
        diffInMonths == diffMonths(moment(now), momentDate)
        diffInYears == diffYears(moment(now), momentDate)
    IN IF diffInMinutes < 60
       THEN (IF diffInMinutes <= 1 THEN "Just now"
             ELSE ToString(diffInMinutes) \o " minutes ago")
       ELSE IF diffInHours < 24
       THEN (IF diffInHours = 1 THEN "1 hour ago"
             ELSE ToString(diffInHours) \o " hours ago")
       ELSE IF diffInDays < 7
       THEN (IF diffInDays = 1 THEN "1 day ago"
             ELSE ToString(diffInDays) \o " days ago")
       ELSE IF diffInWeeks < 4
       THEN (IF diffInWeeks = 1 THEN "1 week ago"
             ELSE ToString(diffInWeeks) \o " weeks ago")
       ELSE IF diffInMonths < 12
       THEN (IF diffInMonths = 1 THEN "1 month ago"
             ELSE ToString(diffInMonths) \o " months ago")
       ELSE (IF diffInYears = 1 THEN "1 year ago"
             ELSE ToString(diffInYears) \o " years ago")

\* DateHelper.formatDate(date, format)
formatDate(date, format) ==
    IF date = "" THEN "Unknown date"
    ELSE IF ~isValid(date) THEN "Invalid date"
    ELSE IF format = "relative" THEN getRelativeTime(moment(date))
    ELSE momentFormat(moment(date), format)

\* the default of the format parameter of formatDate
DefaultDateFormat == "MMM DD, YYYY"

\* HashnodeService.transformPost: a missing field of the node is the empty
\* text (0 for the read time); formatDate is called without a format
transformPost(post) ==
    [ id |-> post.id,
      title |-> IF post.title = "" THEN "Untitled" ELSE post.title,
      description |-> post.brief,
      slug |-> post.slug,
      url |-> post.url,
      publishedAt |-> post.publishedAt,
      formattedDate |-> formatDate(post.publishedAt, DefaultDateFormat),
      coverImage |-> post.coverImage.url,
      author |-> [name |-> IF post.author.name = "" THEN "Unknown Author"
                           ELSE post.author.name,
                  username |-> post.author.username],
      tags |-> post.tags,
      readTime |-> post.readTimeInMinutes ]

-----------------------------------------------------------------------------
(* formatDate and transformPost applied to a post node of the API response *)

\* the node of the response that transformPost turns into PostA
NodeA ==
    [ id |-> "1", title |-> "A", brief |-> "First post", slug |-> "a",
      url |-> "https://example.com/a", publishedAt |-> "2024-01-15T10:00:00.000Z",
      coverImage |-> [url |-> "https://example.com/a.png"],
      author |-> [name |-> "Ann", username |-> "ann"],
      tags |-> <<[name |-> "News", slug |-> "news"]>>, readTimeInMinutes |-> 3 ]

\* a node without title, author and cover image
NodeBare ==
    [ id |-> "4", title |-> "", brief |-> "", slug |-> "d",
      url |-> "https://example.com/d", publishedAt |-> "2024-01-15T10:00:00.000Z",
      coverImage |-> [url |-> ""], author |-> [name |-> "", username |-> ""],
      tags |-> <<>>, readTimeInMinutes |-> 0 ]

\* what the clock shows when the posts are normalized
Nows == {"2024-06-15T12:00:00.000Z"}

\* publication dates at or before the clock: from the same second back to
\* more than three years, around every boundary of getRelativeTime;
\* then a missing and an unreadable date
PublishedAts ==
    { "2024-06-15T12:00:00.000Z", "2024-06-15T11:59:30.000Z", "2024-06-15T11:59:01.000Z",
      "2024-06-15T11:59:00.000Z", "2024-06-15T11:58:30.000Z", "2024-06-15T11:58:01.000Z",
      "2024-06-15T11:58:00.000Z", "2024-06-15T11:01:00.000Z", "2024-06-15T11:00:00.000Z",
      "2024-06-15T10:30:00.000Z", "2024-06-15T10:00:00.000Z", "2024-06-14T13:00:00.000Z",
      "2024-06-14T12:00:00.000Z", "2024-06-14T00:00:00.000Z", "2024-06-13T12:00:00.000Z",
      "2024-06-09T12:00:00.000Z", "2024-06-08T12:00:00.000Z", "2024-06-02T12:00:00.000Z",
      "2024-06-01T12:00:00.000Z", "2024-05-19T12:00:00.000Z", "2024-05-18T12:00:00.000Z",
      "2024-05-17T12:00:00.000Z", "2024-05-16T12:00:00.000Z", "2024-05-15T12:00:01.000Z",
      "2024-05-15T12:00:00.000Z", "2024-05-01T00:00:00.000Z", "2024-04-15T12:00:00.000Z",
      "2023-07-15T12:00:00.000Z", "2023-06-15T12:00:01.000Z", "2023-06-15T12:00:00.000Z",
      "2023-05-20T08:30:00.000Z", "2022-06-15T12:00:00.000Z", "2021-01-02T03:04:05.000Z",
      "", "not a date" }

DateFormats == {"MMM DD, YYYY", "YYYY-MM-DD", "DD/MM/YYYY", "MMMM DD, YYYY", "relative"}

InitDate ==
    /\ now \in Nows
    /\ \E node \in {NodeA, NodeBare}, publishedAt \in PublishedAts :
          response = <<[node EXCEPT !.publishedAt = publishedAt]>>
    /\ \E format \in DateFormats : config = [DefaultConfig EXCEPT !.dateFormat = Str(format)]
    /\ pc = "normalize"
    /\ posts = <<>>
    /\ content = Unset
    /\ currentContent = ""
    /\ updatedContent = ""
    /\ stored = NotFound
    /\ outputs = NoOutputs
    /\ calls = <<>>
    /\ failed = NoError
    /\ validation = NoValidation
    /\ applied = 0
    /\ runs = 0
    /\ log = <<>>
    /\ isMockMode = FALSE
    /\ previous = NoPrevious
    /\ sha = NotFound

\* fetchBlogPosts maps the nodes of the response with transformPost
ApplyTransformPost ==
    /\ pc = "normalize"
    /\ posts' = [i \in 1..Len(response) |-> transformPost(response[i])]
    /\ pc' = "normalized"
    /\ UNCHANGED <<config, content, currentContent, updatedContent, stored, outputs,
                   calls, failed, validation, applied, runs, log, isMockMode, now,
                   response, previous, sha>>

\* formatDate applied to the date of the node with the configured format
ApplyFormatDate ==
    /\ pc = "normalize"
    /\ content' = formatDate(response[1].publishedAt, toText(config.dateFormat))
    /\ pc' = "formatted"
    /\ UNCHANGED <<config, posts, currentContent, updatedContent, stored, outputs,
                   calls, failed, validation, applied, runs, log, isMockMode, now,
                   response, previous, sha>>

NextDate == ApplyTransformPost \/ ApplyFormatDate

SpecDate == InitDate /\ [][NextDate]_vars

-----------------------------------------------------------------------------
(* A run: index.js run() around BlogController.execute, with the post      *)
(* source and the document store as external collaborators                 *)

MaxRuns == 2

\* Configurations given to a run
RunConfigs ==
    { DefaultConfig,
      [DefaultConfig EXCEPT !.displayFormat = Str("list")],
      [DefaultConfig EXCEPT !.displayFormat = Str("table"), !.sectionTitle = Str(""),
                            !.descriptionLength = Num(50)],
      [DefaultConfig EXCEPT !.postCount = Num(0)],
      [DefaultConfig EXCEPT !.publicationName = Str(""), !.cardWidth = Num(99)] }

\* Documents the store holds before the first run
InitialDocuments ==
    { NotFound,
      File("# Readme\n"),
      File("# Readme\n" \o sectionStart \o "\nold\n" \o sectionEnd \o "\nfooter\n"),
      File("# Readme\n" \o sectionStart \o "\nunfinished\n"),
      File("# Readme\n\n" \o fullSection(generateContent(<<PostA>>,
                                [DefaultConfig EXCEPT !.displayFormat = Str("list")]),
                                DefaultConfig.sectionTitle) \o "\n") }

\* What the awaited fetchBlogPosts can resolve with
FetchResults == {<<>>, <<PostA>>, <<PostA, PostB>>}

\* How the awaited fetchBlogPosts can fail: what its catch block logs and
\* the message of the error it throws (a timeout is an error with a request
\* and no response, as an unreachable host is)
FetchFailures(publicationName) ==
    { [logged |-> "Network Error:", data |-> "getaddrinfo ENOTFOUND gql.hashnode.com",
       message |-> "Network error: Unable to reach Hashnode API"],
      [logged |-> "Network Error:", data |-> "timeout of 30000ms exceeded",
       message |-> "Network error: Unable to reach Hashnode API"],
      [logged |-> "API Response Error:", data |-> "500",
       message |-> "Hashnode API error: 500 - Internal Server Error"],
      [logged |-> "Error:", data |-> "GraphQL errors: [{\"message\":\"bad request\"}]",
       message |-> "GraphQL errors: [{\"message\":\"bad request\"}]"],
      [logged |-> "Error:", data |-> "Publication '" \o publicationName \o "' not found",
       message |-> "Publication '" \o publicationName \o "' not found"] }

\* Messages of the errors a call to the document store can be rejected with
StoreErrors == {"Server Error", "Bad credentials"}

CommitShas == {"sha-1", "sha-2"}

Init ==
    /\ stored \in InitialDocuments
    /\ pc = "idle"
    /\ config = DefaultConfig
    /\ posts = <<>>
    /\ content = Unset
    /\ currentContent = Unset
    /\ updatedContent = Unset
    /\ outputs = NoOutputs
    /\ calls = <<>>
    /\ failed = NoError
    /\ validation = NoValidation
    /\ applied = 0
    /\ runs = 0
    /\ log = <<>>
    /\ isMockMode = FALSE
    /\ now = Unset
    /\ response = <<>>
    /\ previous = NoPrevious
    /\ sha = NotFound

\* line 62 of execute: the file is written when this holds
contentChanged_Always(before, after) == TRUE

contentChanged(before, after) == before # after

\* the catch of execute logs the error and rethrows it; the catch of run()
\* logs it and gives its message to setFailed
Rethrown(message) ==
    << <<"error", "Error in BlogController execution:", message>>,
       <<"error", "Action failed:", message>> >>

\* the GitHubService constructor without a token
MockWarning(mock) ==
    IF mock
    THEN << <<"warn", "Using placeholder GitHub token - GitHub operations will be mocked for local development", "">> >>
    ELSE <<>>

\* run() starts a process: the controller is constructed with its
\* configuration and execute validates it; a validation error is thrown to
\* run(), which calls setFailed; otherwise the fetch is issued and awaited.
StartRun_FetchBeforeValidate ==
    /\ pc \in {"idle", "done", "failed"}
    /\ runs < MaxRuns
    /\ runs' = runs + 1
    /\ isMockMode' \in BOOLEAN
    /\ \E cfg \in RunConfigs :
          /\ config' = cfg
          /\ validation' = validateInputs(cfg)
          /\ calls' = <<"fetch">>
          /\ IF validation'.error # NoError
             THEN /\ failed' = validation'.error
                  /\ log' = MockWarning(isMockMode') \o Rethrown(validation'.error)
                  /\ pc' = "failed"
             ELSE failed' = NoError /\ log' = MockWarning(isMockMode') /\ pc' = "fetching"
    /\ posts' = <<>>
    /\ content' = Unset
    /\ currentContent' = Unset
    /\ updatedContent' = Unset
    /\ outputs' = NoOutputs
    /\ UNCHANGED <<stored, applied>>
    /\ previous' = [config |-> config, posts |-> posts,
                    currentContent |-> currentContent,
                    file_updated |-> outputs.file_updated]
    /\ sha' = NotFound
    /\ UNCHANGED <<now, response>>

StartRun ==
    /\ pc \in {"idle", "done", "failed"}
    /\ runs < MaxRuns
    /\ runs' = runs + 1
    /\ isMockMode' \in BOOLEAN
    /\ \E cfg \in RunConfigs :
          /\ config' = cfg
          /\ validation' = validateInputs(cfg)
          /\ IF validation'.error # NoError
             THEN /\ failed' = validation'.error
                  /\ log' = MockWarning(isMockMode') \o Rethrown(validation'.error)
                  /\ calls' = <<>>
                  /\ pc' = "failed"
             ELSE /\ failed' = NoError
                  /\ log' = MockWarning(isMockMode')
                  /\ calls' = <<"fetch">>
                  /\ pc' = "fetching"
    /\ posts' = <<>>
    /\ content' = Unset
    /\ currentContent' = Unset
    /\ updatedContent' = Unset
    /\ outputs' = NoOutputs
    /\ UNCHANGED <<stored, applied>>
    /\ previous' = [config |-> config, posts |-> posts,
                    currentContent |-> currentContent,
                    file_updated |-> outputs.file_updated]
    /\ sha' = NotFound
    /\ UNCHANGED <<now, response>>

\* run() starts a process and the GitHubService constructor throws (a token
\* but no GITHUB_REPOSITORY): execute is never called
ConstructFails ==
    /\ pc \in {"idle", "done", "failed"}
    /\ runs < MaxRuns
    /\ runs' = runs + 1
    /\ isMockMode' = FALSE
    /\ \E cfg \in RunConfigs : config' = cfg
    /\ validation' = NoValidation
    /\ failed' = "Unable to determine repository owner and name from GITHUB_REPOSITORY environment variable"
    /\ log' = << <<"error", "Action failed:", failed'>> >>
    /\ calls' = <<>>
    /\ pc' = "failed"
    /\ posts' = <<>>
    /\ content' = Unset
    /\ currentContent' = Unset
    /\ updatedContent' = Unset
    /\ outputs' = NoOutputs
    /\ UNCHANGED <<stored, applied>>
    /\ previous' = [config |-> config, posts |-> posts,
                    currentContent |-> currentContent,
                    file_updated |-> outputs.file_updated]
    /\ sha' = NotFound
    /\ UNCHANGED <<now, response>>

FetchReturns_MergesEmptyState ==
    /\ pc = "fetching"
    /\ \E ps \in FetchResults :
          /\ posts' = ps
          /\ content' = generateContent(ps, config)
          /\ log' = log \o generateContentWarnings(ps, config)
          /\ calls' = Append(calls, "read")
          /\ pc' = "reading"
    /\ UNCHANGED <<isMockMode, config, currentContent, updatedContent, stored, failed,
                   validation, applied, runs, outputs>>
    /\ UNCHANGED <<now, response, previous, sha>>

\* fetchBlogPosts resolves: with no posts the run ends; otherwise the block
\* is rendered and the read of the document is issued and awaited.
FetchReturns ==
    /\ pc = "fetching"
    /\ \E ps \in FetchResults :
          /\ posts' = ps
          /\ IF Len(ps) = 0
             THEN /\ outputs' = [outputs EXCEPT !.posts_count = "0",
                                                !.file_updated = "false"]
                  /\ log' = Append(log, <<"warn", "No blog posts found", "">>)
                  /\ pc' = "done"
                  /\ UNCHANGED <<content, calls>>
             ELSE /\ content' = generateContent(ps, config)
                  /\ log' = log \o generateContentWarnings(ps, config)
                  /\ calls' = Append(calls, "read")
                  /\ pc' = "reading"
                  /\ UNCHANGED outputs
    /\ UNCHANGED <<isMockMode, config, currentContent, updatedContent, stored, failed,
                   validation, applied, runs>>
    /\ UNCHANGED <<now, response, previous, sha>>

FetchFails_Retries ==
    /\ pc = "fetching"
    /\ IF Len(calls) < 2
       THEN /\ calls' = Append(calls, "fetch")
            /\ UNCHANGED <<pc, failed, log>>
       ELSE /\ \E f \in FetchFailures(toText(config.publicationName)) :
                  /\ failed' = f.message
                  /\ log' = Append(log, <<"error", f.logged, f.data>>) \o Rethrown(f.message)
            /\ pc' = "failed"
            /\ UNCHANGED calls
    /\ UNCHANGED <<isMockMode, config, posts, content, currentContent, updatedContent,
                   stored, outputs, validation, applied, runs>>
    /\ UNCHANGED <<now, response, previous, sha>>

\* fetchBlogPosts rejects: its catch logs and throws, the error reaches
\* run(), which calls setFailed
FetchFails ==
    /\ pc = "fetching"
    /\ \E f \in FetchFailures(toText(config.publicationName)) :
          /\ failed' = f.message
          /\ log' = Append(log, <<"error", f.logged, f.data>>) \o Rethrown(f.message)
    /\ pc' = "failed"
    /\ UNCHANGED <<isMockMode, config, posts, content, currentContent, updatedContent,
                   stored, outputs, calls, validation, applied, runs>>
    /\ UNCHANGED <<now, response, previous, sha>>

ReadReturns_NotFoundFails ==
    /\ pc = "reading"
    /\ IF stored = NotFound
       THEN /\ failed' = "Failed to fetch file " \o toText(config.filename) \o ": Not Found"
            /\ log' = Append(log, <<"error", "Error fetching file content:", "Not Found">>)
                          \o Rethrown(failed')
            /\ pc' = "failed"
            /\ UNCHANGED <<currentContent, updatedContent, calls, outputs>>
       ELSE /\ currentContent' = stored[1]
            /\ updatedContent' =
                   updateFileContent(currentContent', content, config.sectionTitle)
            /\ IF contentChanged(currentContent', updatedContent')
               THEN /\ calls' = Append(calls, IF isMockMode THEN "mkdir" ELSE "sha")
                    /\ pc' = "preparing"
                    /\ UNCHANGED outputs
               ELSE /\ outputs' = [outputs EXCEPT !.posts_count = ToString(Len(posts)),
                                                  !.file_updated = "false"]
                    /\ pc' = "done"
                    /\ UNCHANGED calls
            /\ UNCHANGED <<log, failed>>
    /\ UNCHANGED <<isMockMode, config, posts, content, stored, validation, applied, runs>>
    /\ UNCHANGED <<now, response, previous, sha>>

\* getFileContent resolves ('' when the file does not exist): the block is
\* merged and compared; an unchanged document ends the run, a changed one
\* calls updateFile, whose first call to the store is issued and awaited:
\* the lookup of the file's sha, or the creation of the directory in mock
\* mode.
ReadReturns ==
    /\ pc = "reading"
    /\ currentContent' = IF stored = NotFound THEN "" ELSE stored[1]
    /\ updatedContent' = updateFileContent(currentContent', content, config.sectionTitle)
    /\ IF contentChanged(currentContent', updatedContent')
       THEN /\ calls' = Append(calls, IF isMockMode THEN "mkdir" ELSE "sha")
            /\ pc' = "preparing"
            /\ UNCHANGED outputs
       ELSE /\ outputs' = [outputs EXCEPT !.posts_count = ToString(Len(posts)),
                                          !.file_updated = "false"]
            /\ pc' = "done"
            /\ UNCHANGED calls
    /\ UNCHANGED <<log, isMockMode, config, posts, content, stored, failed, validation,
                   applied, runs>>
    /\ UNCHANGED <<now, response, previous, sha>>

ReadFails_Swallowed ==
    /\ pc = "reading"
    /\ \E err \in StoreErrors :
          log' = Append(log, <<"error", "Error fetching file content:", err>>)
    /\ outputs' = [outputs EXCEPT !.posts_count = ToString(Len(posts)),
                                  !.file_updated = "false"]
    /\ pc' = "done"
    /\ UNCHANGED <<isMockMode, config, posts, content, currentContent, updatedContent,
                   stored, failed, calls, validation, applied, runs>>
    /\ UNCHANGED <<now, response, previous, sha>>

\* getFileContent rejects (a failure other than not-found, or a path that
\* is not a file): it logs and throws
ReadFails ==
    /\ pc = "reading"
    /\ \E err \in StoreErrors \cup
                  (IF isMockMode THEN {}
                   ELSE {"Path " \o toText(config.filename) \o " is not a file"}) :
          /\ failed' = "Failed to fetch file " \o toText(config.filename) \o ": " \o err
          /\ log' = Append(log, <<"error", "Error fetching file content:", err>>)
                        \o Rethrown(failed')
    /\ pc' = "failed"
    /\ UNCHANGED <<isMockMode, config, posts, content, currentContent, updatedContent,
                   stored, outputs, calls, validation, applied, runs>>
    /\ UNCHANGED <<now, response, previous, sha>>

PrepareReturns_WritesTwice ==
    /\ pc = "preparing"
    /\ calls' = calls \o <<"write", "write">>
    /\ pc' = "writing"
    /\ UNCHANGED <<log, isMockMode, config, posts, content, currentContent,
                   updatedContent, stored, outputs, failed, validation, applied, runs>>
    /\ sha' = IF isMockMode THEN sha ELSE stored
    /\ UNCHANGED <<now, response, previous>>

\* the first store call of updateFile resolves (the lookup also when the
\* file does not exist): the write is issued and awaited
PrepareReturns ==
    /\ pc = "preparing"
    /\ calls' = Append(calls, "write")
    /\ pc' = "writing"
    /\ UNCHANGED <<log, isMockMode, config, posts, content, currentContent,
                   updatedContent, stored, outputs, failed, validation, applied, runs>>
    /\ sha' = IF isMockMode THEN sha ELSE stored
    /\ UNCHANGED <<now, response, previous>>

\* the first store call of updateFile rejects: updateFile logs and throws
PrepareFails ==
    /\ pc = "preparing"
    /\ \E err \in StoreErrors :
          /\ failed' = "Failed to update file " \o toText(config.filename) \o ": " \o err
          /\ log' = Append(log, <<"error", "Error updating file:", err>>)
                        \o Rethrown(failed')
    /\ pc' = "failed"
    /\ UNCHANGED <<isMockMode, config, posts, content, currentContent, updatedContent,
                   stored, outputs, calls, validation, applied, runs>>
    /\ UNCHANGED <<now, response, previous, sha>>

WriteReturns_NoCommitSha ==
    /\ pc = "writing"
    /\ stored' = File(updatedContent)
    /\ outputs' = [posts_count |-> ToString(Len(posts)), file_updated |-> "true",
                   commit_sha |-> Unset]
    /\ pc' = "done"
    /\ UNCHANGED <<log, isMockMode, config, posts, content, currentContent,
                   updatedContent, calls, failed, validation, applied, runs>>
    /\ UNCHANGED <<now, response, previous, sha>>

\* updateFile resolves with the commit sha: the document is replaced and
\* the outputs are set
WriteReturns ==
    /\ pc = "writing"
    /\ isMockMode \/ sha = stored
    /\ stored' = File(updatedContent)
    /\ \E commitSha \in CommitShas :
          outputs' = [posts_count |-> ToString(Len(posts)), file_updated |-> "true",
                      commit_sha |-> commitSha]
    /\ pc' = "done"
    /\ UNCHANGED <<log, isMockMode, config, posts, content, currentContent,
                   updatedContent, calls, failed, validation, applied, runs>>
    /\ UNCHANGED <<now, response, previous, sha>>

WriteFails_PartialWrite ==
    /\ pc = "writing"
    /\ stored' = File(substring(updatedContent, 0, Len(updatedContent) \div 2))
    /\ \E err \in StoreErrors :
          /\ failed' = "Failed to update file " \o toText(config.filename) \o ": " \o err
          /\ log' = Append(log, <<"error", "Error updating file:", err>>)
                        \o Rethrown(failed')
    /\ pc' = "failed"
    /\ UNCHANGED <<isMockMode, config, posts, content, currentContent, updatedContent,
                   outputs, calls, validation, applied, runs>>
    /\ UNCHANGED <<now, response, previous, sha>>

\* the write is rejected: nothing is written, updateFile logs and throws
WriteFails ==
    /\ pc = "writing"
    /\ \E err \in StoreErrors :
          /\ failed' = "Failed to update file " \o toText(config.filename) \o ": " \o err
          /\ log' = Append(log, <<"error", "Error updating file:", err>>)
                        \o Rethrown(failed')
    /\ pc' = "failed"
    /\ UNCHANGED <<isMockMode, config, posts, content, currentContent, updatedContent,
                   stored, outputs, calls, validation, applied, runs>>
    /\ UNCHANGED <<now, response, previous, sha>>

Next ==
    \/ StartRun
    \/ ConstructFails
    \/ FetchReturns
    \/ FetchFails
    \/ ReadReturns
    \/ ReadFails
    \/ PrepareReturns
    \/ PrepareFails
    \/ WriteReturns
    \/ WriteFails

Spec == Init /\ [][Next]_vars

\* Another writer of the document store (a person, another workflow)
\* commits a change to the document outside the section while a run may be
\* under way: getFileContent and updateFile are separate requests, and
\* nothing in the run holds the document between them.
Edit == "edited elsewhere\n"

OtherWriter ==
    /\ stored # NotFound
    /\ ~includes(stored[1], Edit)
    /\ stored' = File(stored[1] \o Edit)
    /\ UNCHANGED <<log, isMockMode, config, posts, content, currentContent,
                   updatedContent, outputs, calls, failed, validation, applied,
                   runs, pc>>
    /\ UNCHANGED <<now, response, previous, sha>>

NextConcurrent ==
    \/ Next
    \/ OtherWriter

SpecConcurrent == Init /\ [][NextConcurrent]_vars

-----------------------------------------------------------------------------
(* Properties *)

\* v is a number whose value is an integer of lo..hi
IsIntegerIn(v, lo, hi) == v.t = "number" /\ \E k \in lo..hi : v.n = k * v.d

\* C6: validatePostCount succeeds exactly for the integers 1..12; it fails
\* below 1, above 12, for a non-integer such as 1.5 and for a non-number.
C6_PostCountRange ==
    pc = "validatePostCount" =>
        ((validation.error = NoError) <=> IsIntegerIn(config.postCount, 1, 12))

C6_Witness ==
    /\ pc = "validatePostCount"
    /\ config.postCount = Frac(3, 2)
    /\ validation.error = "Post count must be an integer"

\* C7: validateDisplayFormat succeeds exactly for card, stacked-left,
\* stacked-right, list and table; every other value, the empty string and
\* non-strings included, fails.
C7_DisplayFormatEnum ==
    pc = "validateDisplayFormat" =>
        ((validation.error = NoError) <=>
            /\ config.displayFormat.t = "string"
            /\ config.displayFormat.s \in
                   {"card", "stacked-left", "stacked-right", "list", "table"})

C7_Witness ==
    /\ pc = "validateDisplayFormat"
    /\ config.displayFormat = Str("table")
    /\ validation.error = NoError

\* C8: when validateInputs succeeds every numeric option is an integer in
\* its closed range: postCount 1..12, cardWidth 100..1200, imageWidth and
\* imageHeight 50..500, descriptionLength 50..1000.
C8_NumericRanges ==
    (pc = "validateInputs" /\ validation.error = NoError) =>
        /\ IsIntegerIn(config.postCount, 1, 12)
        /\ IsIntegerIn(config.cardWidth, 100, 1200)
        /\ IsIntegerIn(config.imageWidth, 50, 500)
        /\ IsIntegerIn(config.imageHeight, 50, 500)
        /\ IsIntegerIn(config.descriptionLength, 50, 1000)

C8_Witness ==
    /\ pc = "validateInputs"
    /\ validation.error = NoError
    /\ config.cardWidth = Num(1200)
    /\ config.imageHeight = Num(50)

\* position of a rule in the order the claim gives; the optional fields
\* follow the eight ordered rules
RuleRank(rule) ==
    CASE rule = "publicationName" -> 1
      [] rule = "postCount" -> 2
      [] rule = "displayFormat" -> 3
      [] rule = "filename" -> 4
      [] rule = "cardWidth" -> 5
      [] rule = "imageWidth" -> 6
      [] rule = "imageHeight" -> 7
      [] rule = "descriptionLength" -> 8
      [] OTHER -> 9

AllRules ==
    {"publicationName", "postCount", "displayFormat", "filename", "cardWidth",
     "imageWidth", "imageHeight", "descriptionLength", "dateFormat",
     "customCss", "sectionTitle", "noPostsMessage", "targetBranch"}

ViolatedRules(cfg) == {r \in AllRules : inputCheck(r, cfg) # NoError}

\* C9: validation is ordered and fail-fast: the one error raised is that of
\* the earliest violated rule in the order publication name, post count,
\* display format, filename, cardWidth, imageWidth, imageHeight,
\* descriptionLength, optional fields; no later rule is evaluated.
C9_OrderedFailFast ==
    pc = "validateInputs" =>
        IF ViolatedRules(config) = {}
        THEN validation.error = NoError
        ELSE /\ validation.rule \in ViolatedRules(config)
             /\ validation.error = inputCheck(validation.rule, config)
             /\ \A r \in ViolatedRules(config) :
                    RuleRank(validation.rule) <= RuleRank(r)
             /\ \A i \in 1..Len(validation.evaluated) :
                    RuleRank(validation.evaluated[i]) <= RuleRank(validation.rule)
             /\ validation.evaluated[Len(validation.evaluated)] = validation.rule

C9_Witness ==
    /\ pc = "validateInputs"
    /\ inputCheck("postCount", config) # NoError
    /\ inputCheck("displayFormat", config) # NoError
    /\ validation.rule = "postCount"
    /\ validation.evaluated = <<"publicationName", "postCount">>

hasMarker(s) == includes(s, sectionStart) \/ includes(s, sectionEnd)

\* C1 as stated: merge is idempotent: merging the same block and title into
\* the output of a merge returns that output unchanged, for any document.
C1_Original ==
    applied >= 2 => updatedContent = currentContent

\* C1 (amended): merge is idempotent for every starting document that
\* contains neither marker or whose first start marker precedes its first
\* end marker, and every block and title that do not contain the end marker.
C1_Idempotent ==
    ( /\ applied >= 2
      /\ \/ ~hasMarker(stored[1])
         \/ /\ includes(stored[1], sectionStart)
            /\ includes(stored[1], sectionEnd)
            /\ indexOf(stored[1], sectionStart) < indexOf(stored[1], sectionEnd)
      /\ ~includes(content, sectionEnd)
      /\ ~includes(config.sectionTitle.s, sectionEnd) )
    => updatedContent = currentContent

C1_Witness ==
    /\ applied = 2
    /\ stored = File(Pieces[1] \o sectionStart \o Pieces[1] \o sectionEnd \o Pieces[1])
    /\ content # ""
    /\ currentContent = Pieces[1] \o fullSection(content, config.sectionTitle) \o Pieces[1]
    /\ updatedContent = currentContent

\* the 1-based positions at which sub occurs in s
Occurrences(s, sub) ==
    {i \in 1..(Len(s) - Len(sub) + 1) : SubSeq(s, i, i + Len(sub) - 1) = sub}

\* C2 as stated: for a document X + start marker + old + end marker + Y
\* with no marker text in X and Y, merge returns X + full section + Y.
C2_Original ==
    applied >= 1 =>
        \A i \in Occurrences(currentContent, sectionStart) :
            \A j \in Occurrences(currentContent, sectionEnd) :
                ( /\ j >= i + Len(sectionStart)
                  /\ ~hasMarker(SubSeq(currentContent, 1, i - 1))
                  /\ ~hasMarker(SubSeq(currentContent, j + Len(sectionEnd),
                                       Len(currentContent))) )
                => updatedContent =
                       SubSeq(currentContent, 1, i - 1)
                           \o fullSection(content, config.sectionTitle)
                           \o SubSeq(currentContent, j + Len(sectionEnd),
                                     Len(currentContent))

\* C2 (amended): for a document X + start marker + old + end marker + Y
\* with no marker text in X and Y and no end marker in old, merge returns
\* X + full section + Y: X and Y are kept byte for byte and everything from
\* the start marker through the end marker is replaced.
C2_MarkerPreservation ==
    applied >= 1 =>
        \A i \in Occurrences(currentContent, sectionStart) :
            \A j \in Occurrences(currentContent, sectionEnd) :
                ( /\ j >= i + Len(sectionStart)
                  /\ ~hasMarker(SubSeq(currentContent, 1, i - 1))
                  /\ ~hasMarker(SubSeq(currentContent, j + Len(sectionEnd),
                                       Len(currentContent)))
                  /\ ~includes(SubSeq(currentContent, i + Len(sectionStart), j - 1),
                               sectionEnd) )
                => updatedContent =
                       SubSeq(currentContent, 1, i - 1)
                           \o fullSection(content, config.sectionTitle)
                           \o SubSeq(currentContent, j + Len(sectionEnd),
                                     Len(currentContent))

C2_Witness ==
    /\ applied = 1
    /\ currentContent = Pieces[1] \o sectionStart \o Pieces[1] \o sectionEnd \o Pieces[1]
    /\ updatedContent = Pieces[1] \o fullSection(content, config.sectionTitle) \o Pieces[1]
    /\ updatedContent # currentContent

\* C3: when the start marker or the end marker is absent from the existing
\* text, merge returns the existing text, two newlines, the full section
\* (start marker, the heading "## <title>" only for a non-empty title, the
\* rendered block, end marker) and one newline.
C3_AppendMode ==
    (applied >= 1 /\ (~includes(currentContent, sectionStart)
                         \/ ~includes(currentContent, sectionEnd))) =>
        updatedContent =
            currentContent \o "\n\n"
                \o sectionStart \o "\n"
                \o (IF config.sectionTitle.s # ""
                    THEN "## " \o config.sectionTitle.s \o "\n\n" ELSE "")
                \o content \o "\n"
                \o sectionEnd \o "\n"

C3_Witness ==
    /\ applied = 1
    /\ currentContent = Pieces[1] \o sectionStart
    /\ config.sectionTitle = Str("")
    /\ startsWith(updatedContent, currentContent \o "\n\n" \o sectionStart \o "\n" \o content)


\* c is among the external calls the run has made
Called(c) == \E i \in 1..Len(calls) : calls[i] = c

\* C4: in every run the document-store write is invoked only when the merge
\* output differs from the content read in that run; when they are equal
\* there is no write and no commit and file_updated is reported false.
C4_ChangeDetection ==
    /\ (pc = "writing" \/ Called("write")) => updatedContent # currentContent
    /\ (pc = "done" /\ Called("read") /\ updatedContent = currentContent) =>
           /\ ~Called("write")
           /\ outputs.file_updated = "false"
           /\ outputs.commit_sha = Unset

C4_Witness ==
    /\ pc = "done"
    /\ runs = 2
    /\ calls = <<"fetch", "read">>
    /\ updatedContent = currentContent
    /\ stored = File(currentContent)
    /\ outputs.file_updated = "false"

\* C5: when validateInputs fails for the run's configuration, the run ends
\* in failure with that error and has made no post fetch, no document read
\* and no document write.
C5_ValidationGatesIO ==
    (validation.error # NoError /\ validation.error # Unset) =>
        /\ pc = "failed"
        /\ failed = validation.error
        /\ calls = <<>>
        /\ posts = <<>>
        /\ currentContent = Unset

C5_Witness ==
    /\ pc = "failed"
    /\ validation.error = "Post count must be at least 1"
    /\ failed = "Post count must be at least 1"
    /\ calls = <<>>

\* C10 as stated: for an empty post list generateContent returns exactly
\* config.noPostsMessage, an empty-string message included.
C10_Original ==
    (pc = "rendered" /\ posts = <<>> /\ config.noPostsMessage.t = "string") =>
        content = config.noPostsMessage.s

\* C10 (amended): for an empty post list generateContent returns
\* config.noPostsMessage when that is a non-empty string, and the literal
\* "No blog posts found." when it is empty or absent; with the default
\* configuration the result is "No blog posts found.".
C10_EmptyState ==
    (pc = "rendered" /\ posts = <<>>) =>
        /\ content = IF config.noPostsMessage.t = "string"
                        /\ config.noPostsMessage.s # ""
                     THEN config.noPostsMessage.s
                     ELSE "No blog posts found."
        /\ config.noPostsMessage = DefaultConfig.noPostsMessage =>
               content = "No blog posts found."

C10_Witness ==
    /\ pc = "rendered"
    /\ posts = <<>>
    /\ config.noPostsMessage = Str("")
    /\ content = "No blog posts found."

\* the layouts that emit HTML
HtmlLayouts == {"card", "stacked-left", "stacked-right", "table"}

HtmlSpecials == {"&", "<", ">", "\"", "'"}

\* C11: in every HTML-emitting layout the title and description of each
\* post appear in the output only with & < > " ' replaced by entities: the
\* escaped title is the link text, no title or description holding one of
\* the five characters appears raw, and the output holds no <script> tag.
C11_HtmlEscaping ==
    (pc = "rendered" /\ posts # <<>> /\ toText(config.displayFormat) \in HtmlLayouts) =>
        /\ \A i \in 1..Len(posts) :
              LET p == processPost(posts[i], config)
              IN /\ includes(content, ">" \o escapeHtml(p.title) \o "</a>")
                 /\ hasCharIn(p.title, HtmlSpecials) => ~includes(content, p.title)
                 /\ hasCharIn(p.description, HtmlSpecials) =>
                        ~includes(content, p.description)
        /\ ~includes(content, "<script>")

\* the description of a post as C12 states it has to be rendered
Truncated(description, descriptionLength) ==
    IF Len(description) > descriptionLength
    THEN SubSeq(description, 1, descriptionLength) \o "..."
    ELSE description

\* the tag that closes a description in the layout of the configuration
DescriptionEnd(cfg) ==
    IF toText(cfg.displayFormat) = "table" THEN "</span>" ELSE "</p>"

\* C12: rendering turns a description longer than descriptionLength into
\* exactly its first descriptionLength characters followed by "...", and
\* leaves a description at or under that length unchanged; every layout
\* that shows descriptions emits that text and, for a cut description,
\* not the full one.
C12_Truncation ==
    (pc = "rendered" /\ posts # <<>>) =>
        \A i \in 1..Len(posts) :
            LET d == posts[i].description
                expected == Truncated(d, config.descriptionLength.n)
            IN /\ processPost(posts[i], config).description = expected
               /\ toText(config.displayFormat) # "list" =>
                      /\ includes(content, ">" \o expected \o DescriptionEnd(config))
                      /\ Len(d) > config.descriptionLength.n => ~includes(content, d)

C12_Witness ==
    /\ pc = "rendered"
    /\ posts = <<PostA, PostB>>
    /\ config.displayFormat = Str("card")
    /\ config.descriptionLength = Num(50)
    /\ Len(PostB.description) > 50
    /\ includes(content, ">" \o SubSeq(PostB.description, 1, 50) \o "...</p>")
    /\ includes(content, ">" \o PostA.description \o "</p>")

\* the lines of a text: its pieces between line breaks
RECURSIVE Lines(_)
Lines(s) ==
    IF indexOf(s, "\n") < 0 THEN <<s>>
    ELSE <<substring(s, 0, indexOf(s, "\n"))>>
             \o Lines(substringFrom(s, indexOf(s, "\n") + 1))

\* C13: with display format list, a non-empty sequence of n posts renders
\* to exactly n lines joined by single line breaks, line i being
\* "- **<formattedDate>**: [<title>](<url>)" of post i of the input.
C13_ListLayout ==
    (pc = "rendered" /\ posts # <<>> /\ config.displayFormat = Str("list")) =>
        Lines(content) =
            [i \in 1..Len(posts) |->
                "- **" \o posts[i].formattedDate \o "**: [" \o posts[i].title
                    \o "](" \o posts[i].url \o ")"]

C13_Witness ==
    /\ pc = "rendered"
    /\ posts = <<PostB, PostA>>
    /\ config.displayFormat = Str("list")
    /\ content = "- **Feb 01, 2024**: [B](https://example.com/b)\n"
                     \o "- **Jan 15, 2024**: [A](https://example.com/a)"

\* the part of s between the first open and the first close after it
Between(s, open, close) ==
    LET rest == substringFrom(s, indexOf(s, open) + Len(open))
    IN substring(rest, 0, indexOf(rest, close))

\* body, from row i on, consists of the rows of posts i..n in that order,
\* each a <tr>...</tr> element naming its post, with only white space
\* around them
RECURSIVE RowsOnly(_, _, _)
RowsOnly(body, ps, i) ==
    LET t == trimStart(body)
    IN IF i > Len(ps) THEN t = ""
       ELSE /\ startsWith(t, "<tr>")
            /\ indexOf(t, "</tr>") >= 0
            /\ LET end == indexOf(t, "</tr>") + Len("</tr>")
               IN /\ includes(substring(t, 0, end), ps[i].formattedDate)
                  /\ includes(substring(t, 0, end), "href=\"" \o ps[i].url \o "\"")
                  /\ RowsOnly(substringFrom(t, end), ps, i + 1)

\* C14: with display format table, a non-empty sequence of n posts renders
\* to one HTML table whose head is one row with the columns Date, Image and
\* Title & Description, and whose body consists of exactly n rows, one per
\* post in input order, and nothing else.
C14_TableLayout ==
    (pc = "rendered" /\ posts # <<>> /\ config.displayFormat = Str("table")) =>
        /\ startsWith(content, "<table ")
        /\ Cardinality(Occurrences(content, "<table")) = 1
        /\ Occurrences(content, "</table>") = {Len(content) - Len("</table>") + 1}
        /\ LET head == Between(content, "<thead>", "</thead>")
           IN /\ Cardinality(Occurrences(head, "<tr>")) = 1
              /\ Cardinality(Occurrences(head, "<th ")) = 3
              /\ includes(head, ">Date</th>")
              /\ includes(head, ">Image</th>")
              /\ includes(head, ">Title & Description</th>")
        /\ Cardinality(Occurrences(content, "<tbody>")) = 1
        /\ RowsOnly(Between(content, "<tbody>", "</tbody>"), posts, 1)

\* C15: for a non-empty post list and a displayFormat outside the five
\* supported values, generateContent does not fail, returns exactly what it
\* returns for the same posts and configuration with displayFormat
\* stacked-left, and has logged one warning naming the unknown format.
C15_UnknownFormatFallback ==
    (pc = "rendered" /\ posts # <<>>
        /\ ~(config.displayFormat.t = "string"
              /\ arrayIncludes(getSupportedFormats, config.displayFormat.s))) =>
        /\ failed = NoError
        /\ content = generateContent(posts,
                         [config EXCEPT !.displayFormat = Str("stacked-left")])
        /\ log = << <<"warn",
                      "Unknown display format: " \o toText(config.displayFormat)
                          \o ", using stacked-left",
                      "">> >>

C15_Witness ==
    /\ pc = "rendered"
    /\ posts = <<PostA>>
    /\ config.displayFormat = Str("grid")
    /\ startsWith(content, "<div style=\"display: flex; flex-direction: row;")
    /\ log = << <<"warn", "Unknown display format: grid, using stacked-left", "">> >>

\* how many of the run's external calls are c
Count(c) == Cardinality({i \in 1..Len(calls) : calls[i] = c})

\* the run failed in fetchBlogPosts
FetchFailed ==
    \E f \in FetchFailures(toText(config.publicationName)) :
        /\ failed = f.message
        /\ \E i \in 1..Len(log) : log[i] = <<"error", f.logged, f.data>>

\* C16: a run calls the post fetch at most once, never again after a
\* failure; when the fetch fails (unreachable host, timeout, HTTP error
\* response, errors array, missing publication) the run has ended in
\* failure with that error and has made no document read and no write.
C16_SingleFetchNoRetry ==
    /\ Count("fetch") <= 1
    /\ pc \in {"fetching", "reading", "preparing", "writing", "done"} =>
           Count("fetch") = 1
    /\ FetchFailed =>
           /\ pc = "failed"
           /\ calls = <<"fetch">>
           /\ currentContent = Unset
           /\ updatedContent = Unset
           /\ outputs = NoOutputs

C16_Witness ==
    /\ pc = "failed"
    /\ failed = "Network error: Unable to reach Hashnode API"
    /\ \E i \in 1..Len(log) :
          log[i] = <<"error", "Network Error:", "timeout of 30000ms exceeded">>
    /\ calls = <<"fetch">>
    /\ currentContent = Unset

\* the log holds an error entry
ErrorLogged == \E i \in 1..Len(log) : log[i][1] = "error"

\* C17: an error raised in validation, fetch, read or write reaches the
\* catch of execute and the catch of run(), and setFailed is given its
\* message: whenever an error was logged or validation failed the run has
\* ended failed with the message of the rethrown error, and a run that
\* ended successfully has raised no error.
C17_ErrorsPropagate ==
    /\ (pc = "failed") <=> (failed # NoError)
    /\ ErrorLogged =>
           /\ pc = "failed"
           /\ log[Len(log)] = <<"error", "Action failed:", failed>>
           /\ calls # <<>> =>
                  SubSeq(log, Len(log) - 1, Len(log)) = Rethrown(failed)
    /\ (validation.error # NoError /\ validation.error # Unset) =>
           pc = "failed" /\ failed = validation.error /\ ErrorLogged
    /\ pc = "failed" => ErrorLogged
    /\ pc = "done" => failed = NoError /\ ~ErrorLogged

C17_Witness ==
    /\ pc = "failed"
    /\ calls = <<"fetch", "read">>
    /\ failed = "Failed to fetch file README.md: Path README.md is not a file"
    /\ log = <<<<"error", "Error fetching file content:", "Path README.md is not a file">>>>
                 \o Rethrown(failed)

IsPrefix(s, t) == Len(s) <= Len(t) /\ SubSeq(t, 1, Len(s)) = s

\* a run past validation has called the fetch exactly once, and the call
\* awaited at each position of the run is the last one made
OneCallAtATime ==
    /\ pc \in {"fetching", "reading", "preparing", "writing", "done"} =>
           Count("fetch") = 1
    /\ pc = "fetching" => calls = <<"fetch">>
    /\ pc = "reading" => calls[Len(calls)] = "read"
    /\ pc = "writing" => calls[Len(calls)] = "write"

\* C19 as stated: one fetch, then at most one read of the document, then
\* at most one write, in that order and nothing else: at most two calls to
\* the document store in a run.
C19_Original ==
    /\ OneCallAtATime
    /\ IsPrefix(calls, <<"fetch", "read", "write">>)
    /\ Len(calls) - Count("fetch") <= 2

\* C19 (amended): a run past validation makes exactly one fetch and between
\* zero and three calls to the document store: at most one read of the
\* document, then, only for a changed document, the first call of
\* updateFile (the lookup of the file's sha; in mock mode the creation of
\* the directory) and then at most one write; strictly in that order, each
\* call completing before the next is made.
C19_CallOrder ==
    /\ OneCallAtATime
    /\ pc = "preparing" => calls[Len(calls)] \in {"sha", "mkdir"}
    /\ IsPrefix(calls, <<"fetch", "read", IF isMockMode THEN "mkdir" ELSE "sha", "write">>)
    /\ Len(calls) - Count("fetch") <= 3
    /\ Len(calls) > 2 => updatedContent # currentContent

C19_Witness ==
    /\ pc = "done"
    /\ ~isMockMode
    /\ calls = <<"fetch", "read", "sha", "write">>
    /\ stored = File(updatedContent)

\* C20: a run that ends without error has set posts_count to the number of
\* posts fetched and file_updated to true exactly when the document was
\* written in the run; commit_sha is set exactly when file_updated is true
\* and is then the commit identifier the write returned.  A run that ends
\* in failure has set no output.
C20_RunOutputs ==
    /\ pc = "done" =>
           /\ outputs.posts_count = ToString(Len(posts))
           /\ outputs.file_updated \in {"true", "false"}
           /\ (outputs.file_updated = "true") <=> Called("write")
           /\ outputs.file_updated = "true" => stored = File(updatedContent)
           /\ (outputs.commit_sha # Unset) <=> (outputs.file_updated = "true")
           /\ outputs.commit_sha # Unset => outputs.commit_sha \in CommitShas
    /\ pc = "failed" => outputs = NoOutputs

C20_Witness ==
    /\ pc = "done"
    /\ posts = <<PostA, PostB>>
    /\ calls[Len(calls)] = "write"
    /\ outputs = [posts_count |-> "2", file_updated |-> "true", commit_sha |-> "sha-2"]

\* the messages a run can fail with in getFileContent
ReadErrors ==
    {"Failed to fetch file " \o toText(config.filename) \o ": " \o err :
        err \in StoreErrors \cup {"Path " \o toText(config.filename) \o " is not a file"}}

\* C21: a document that does not exist is read as the empty string, from
\* the repository and from the local file system alike, and the run goes
\* on to merge into empty prior content: no run fails with a not-found
\* read error.  Every other read failure ends the run in failure with no
\* write after it.
C21_ReadNotFound ==
    /\ failed # "Failed to fetch file " \o toText(config.filename) \o ": Not Found"
    /\ (pc \in {"preparing", "writing"} /\ stored = NotFound) =>
           /\ currentContent = ""
           /\ updatedContent = "\n\n" \o fullSection(content, config.sectionTitle) \o "\n"
           /\ failed = NoError
    /\ (pc = "failed" /\ Len(calls) > 0 /\ calls[Len(calls)] = "read") =>
           /\ failed \in ReadErrors
           /\ ~Called("write")
           /\ ~Called("sha") /\ ~Called("mkdir")
           /\ outputs = NoOutputs

C21_Witness ==
    /\ pc = "done"
    /\ currentContent = ""
    /\ isMockMode
    /\ calls = <<"fetch", "read", "mkdir", "write">>
    /\ stored = File("\n\n" \o fullSection(content, config.sectionTitle) \o "\n")
    /\ outputs.file_updated = "true"

\* C22: every post the normalizer produces has as formattedDate its
\* publishedAt formatted with the date format configured for the run
\* (config.dateFormat, 'relative' included).
C22_ConfiguredDateFormat ==
    pc = "normalized" =>
        \A i \in 1..Len(posts) :
            posts[i].formattedDate =
                formatDate(response[i].publishedAt, toText(config.dateFormat))

\* "N <unit> ago", the unit singular exactly when N = 1
Ago(n, unit) == ToString(n) \o " " \o unit \o (IF n = 1 THEN "" ELSE "s") \o " ago"

\* the relative text C25 states for a date: the count and unit of the
\* first bucket the elapsed time falls under
RelativeText(seconds, months) ==
    IF seconds < 60 THEN "Just now"
    ELSE IF seconds < 60 * 60 THEN Ago(seconds \div 60, "minute")
    ELSE IF seconds < 24 * 3600 THEN Ago(seconds \div 3600, "hour")
    ELSE IF seconds < 7 * 86400 THEN Ago(seconds \div 86400, "day")
    ELSE IF seconds < 4 * 7 * 86400 THEN Ago(seconds \div (7 * 86400), "week")
    ELSE IF months < 12 THEN Ago(months, "month")
    ELSE Ago(months \div 12, "year")

\* C25: with the relative format a date at or before now gives 'Just now'
\* under one minute of elapsed time and otherwise 'N <unit> ago' with
\* N >= 1, singular exactly for N = 1, the unit being minutes under 60
\* minutes, hours under 24 hours, days under 7 days, weeks under 4 weeks,
\* months under 12 months and years beyond; the count is never 0.
C25_RelativeDate ==
    (pc = "formatted" /\ config.dateFormat = Str("relative")
        /\ isValid(response[1].publishedAt)) =>
        LET then == moment(response[1].publishedAt)
            seconds == valueOf(moment(now)) - valueOf(then)
        IN seconds >= 0 =>
              /\ content = RelativeText(seconds, diffMonths(moment(now), then))
              /\ ~startsWith(content, "0 ")

\* the least element of a non-empty set of numbers
Least(S) == CHOOSE x \in S : \A y \in S : x <= y

\* the positions of the end markers of s located after its first start marker
EndsAfterFirstStart(s) ==
    {j \in Occurrences(s, sectionEnd) :
        j >= Least(Occurrences(s, sectionStart)) + Len(sectionStart)}

\* C23: when the existing text holds a start marker and no end marker
\* after it (an end marker before it or none at all), merge appends: the
\* result is the existing text, two newlines, the full section and a
\* newline.
C23_DanglingStartAppends ==
    ( /\ applied >= 1
      /\ includes(currentContent, sectionStart)
      /\ EndsAfterFirstStart(currentContent) = {} )
    => updatedContent =
           currentContent \o "\n\n" \o fullSection(content, config.sectionTitle) \o "\n"

\* C24: when the existing text holds several markers, merge replaces
\* exactly the region from the first start marker through the first end
\* marker that follows it; the text before that start marker and after
\* that end marker, later markers included, is unchanged.
C24_FirstPairReplaced ==
    ( /\ applied >= 1
      /\ includes(currentContent, sectionStart)
      /\ EndsAfterFirstStart(currentContent) # {} )
    => LET i == Least(Occurrences(currentContent, sectionStart))
           j == Least(EndsAfterFirstStart(currentContent))
       IN updatedContent =
              SubSeq(currentContent, 1, i - 1)
                  \o fullSection(content, config.sectionTitle)
                  \o SubSeq(currentContent, j + Len(sectionEnd), Len(currentContent))

\* text holds exactly one start marker and exactly one end marker, the
\* start marker before the end marker
WellFormed(text) ==
    /\ Cardinality(Occurrences(text, sectionStart)) = 1
    /\ Cardinality(Occurrences(text, sectionEnd)) = 1
    /\ indexOf(text, sectionStart) < indexOf(text, sectionEnd)

\* a document C26 starts from, or one with its section
Admissible(doc) == doc = NotFound \/ ~hasMarker(doc[1]) \/ WellFormed(doc[1])

\* the text outside the section of a well-formed text
BeforeSection(text) == substring(text, 0, indexOf(text, sectionStart))
AfterSection(text) == substringFrom(text, indexOf(text, sectionEnd) + Len(sectionEnd))

\* C26: a run that changes a document which holds no marker, or exactly
\* one start marker followed by one end marker, with a block and a title
\* free of marker text, leaves a document with exactly one start marker
\* and one end marker, the start first; and when the section was there
\* already the text before and after it is unchanged.  (A run that does
\* not write leaves the document as it is.)
C26_DocumentInvariant ==
    [][( /\ stored' # stored
         /\ Admissible(stored)
         /\ ~hasMarker(content)
         /\ ~hasMarker(toText(config.sectionTitle)) )
       => /\ WellFormed(stored'[1])
          /\ (stored # NotFound /\ WellFormed(stored[1])) =>
                 /\ BeforeSection(stored'[1]) = BeforeSection(stored[1])
                 /\ AfterSection(stored'[1]) = AfterSection(stored[1])]_vars

C26_Witness ==
    /\ pc = "done"
    /\ runs = 2
    /\ previous.file_updated = "true"
    /\ outputs.file_updated = "true"
    /\ previous.currentContent = "# Readme\n"
    /\ WellFormed(stored[1])
    /\ BeforeSection(stored[1]) = "# Readme\n\n\n"
    /\ AfterSection(stored[1]) = "\n"

\* C27: when the fetch returns no posts the run ends successfully with
\* posts_count 0 and file_updated false, having made no document read and
\* no write: nothing is rendered or merged, and the stored document does
\* not get the empty-state message.
C27_NoPostsNoIO ==
    /\ (pc \in {"reading", "preparing", "writing"}) => posts # <<>>
    /\ (pc = "done" /\ posts = <<>>) =>
           /\ outputs = [posts_count |-> "0", file_updated |-> "false",
                         commit_sha |-> Unset]
           /\ failed = NoError
           /\ calls = <<"fetch">>
           /\ content = Unset
           /\ currentContent = Unset
           /\ updatedContent = Unset
    /\ stored # NotFound => ~includes(stored[1], noPostsContent(config))

C27_Witness ==
    /\ pc = "done"
    /\ runs = 2
    /\ posts = <<>>
    /\ previous.file_updated = "true"
    /\ stored # NotFound /\ includes(stored[1], previous.posts[1].url)
    /\ outputs = [posts_count |-> "0", file_updated |-> "false", commit_sha |-> Unset]
    /\ calls = <<"fetch">>

\* the run before the current one wrote the document, with the
\* configuration and the posts of the current run
FollowsSameRun ==
    /\ previous.file_updated = "true"
    /\ previous.config = config
    /\ previous.posts = posts

\* the current run has read the document and found nothing to write
NothingToWrite ==
    /\ updatedContent = currentContent
    /\ ~Called("sha") /\ ~Called("mkdir") /\ ~Called("write")
    /\ pc = "done" /\ outputs.file_updated = "false"

\* C28: a run that follows a run which wrote the document, with
\* the same configuration and posts, detects no difference, makes no write
\* and reports file_updated false, whatever the document was.
C28_RepeatedRunsNoWrite ==
    (FollowsSameRun /\ currentContent # Unset) => NothingToWrite

\* Repeated runs do converge on a document that, when the first of the
\* two runs read it, held neither marker or had its first start marker
\* before its first end marker (the rendered block and the title holding
\* no end marker).
RepeatedRunsConverge ==
    ( /\ FollowsSameRun
      /\ currentContent # Unset
      /\ \/ ~hasMarker(previous.currentContent)
         \/ /\ includes(previous.currentContent, sectionStart)
            /\ includes(previous.currentContent, sectionEnd)
            /\ indexOf(previous.currentContent, sectionStart)
                   < indexOf(previous.currentContent, sectionEnd)
      /\ ~includes(content, sectionEnd)
      /\ ~includes(toText(config.sectionTitle), sectionEnd) )
    => NothingToWrite

RepeatedRunsConverge_Reached ==
    /\ FollowsSameRun
    /\ posts = <<PostA, PostB>>
    /\ previous.currentContent = ""
    /\ currentContent = "\n\n" \o fullSection(content, config.sectionTitle) \o "\n"
    /\ NothingToWrite

\* C29: when another writer has changed the stored document since the run
\* read it, the run's write through the API keeps that change: the text
\* the other writer added is still in the stored document after the write.
C29_WriteKeepsOtherChange ==
    [][( /\ pc = "writing" /\ pc' = "done"
         /\ ~isMockMode
         /\ stored # NotFound
         /\ includes(stored[1], Edit)
         /\ ~includes(currentContent, Edit) )
       => includes(stored'[1], Edit)]_vars

====
